---- MODULE Spec2Model ----
(***************************************************************************)
(* State-machine model of the note-taking backend: the document store      *)
(* (User, Note, Notebook, Tag, Comment, Attachment, Group collections) and *)
(* the request handlers of the controllers.  Every handler is one atomic   *)
(* action (requests run one at a time); the last HTTP response is kept in  *)
(* the variable resp.  The requests whose awaits are interleaved with      *)
(* those of another request are modelled step by step; inflight holds what *)
(* each of them has read so far.                                           *)
(***************************************************************************)
EXTENDS Integers, Sequences, FiniteSets, TLC

VARIABLES users, notes, notebooks, tags, comments, attachments, groups, nextId, resp, inflight

vars == <<users, notes, notebooks, tags, comments, attachments, groups, nextId, resp, inflight>>

stores == <<users, notes, notebooks, tags, comments, attachments, groups, nextId>>

(***************************************************************************)
(* Bounds of the model: how many documents of each collection are ever     *)
(* created (storage identities are fresh and never reused), and the length *)
(* of the id arrays a request body carries.                                *)
(***************************************************************************)
MaxNotes == 2

MaxTags == 2

MaxNotebooks == 2

MaxGroups == 1

MaxComments == 1

MaxAttachments == 1

MaxArr == 1

MaxSignups == 2

(***************************************************************************)
(* JavaScript values.  An optional request field is a set: {} is           *)
(* undefined, {v} is the value v.                                          *)
(***************************************************************************)
None == {}

Some(v) == {v}

IsDef(o) == o # {}

Val(o) == CHOOSE v \in o : TRUE

\* o || d  for a string field: undefined and the empty string are falsy
OrElse(o, d) == IF o = {} \/ o = {""} THEN d ELSE Val(o)

\* o || []  for an array field (every array is truthy)
OrEmpty(o) == IF o = {} THEN <<>> ELSE Val(o)

\* !o  for a string field
Falsy(o) == o = {} \/ o = {""}

\* Array.prototype.includes
Includes(s, x) == \E i \in DOMAIN s : s[i] = x

\* Array.prototype.push
Push(s, x) == Append(s, x)

\* MongoDB $pull: removes every occurrence
Pull(s, x) == SelectSeq(s, LAMBDA y : y # x)

\* MongoDB $addToSet: appends unless present
AddToSet(s, x) == IF Includes(s, x) THEN s ELSE Append(s, x)

Range(s) == {s[i] : i \in DOMAIN s}

\* the arrays of at most n elements of S
Arrays(S, n) == UNION {[1..k -> S] : k \in 0..n}

\* the document d removed from collection c
Remove(c, d) == [x \in DOMAIN c \ {d} |-> c[x]]

\* the document v stored under the identity d
Insert(c, d, v) == [x \in DOMAIN c \cup {d} |-> IF x = d THEN v ELSE c[x]]

(***************************************************************************)
(* Users and roles.  The authenticate middleware attaches req.userId and   *)
(* req.user (with its roles array) to every request.                       *)
(***************************************************************************)
Roles == {"Admin", "Lead Editor", "Editor", "Contributor"}

\* bcrypt.hash of the pre-save hook: the stored value is not the password
bcryptHash(p) == <<"$2b$10", p>>

\* the User document of a seeded account
SeedUser(name, mail, roles) == [roles |-> roles, user_name |-> name, email |-> mail, password |-> bcryptHash("secret1")]

SeedUsers == [alice |-> SeedUser("alice", "alice@x.io", {"Contributor"}), bob |-> SeedUser("bob", "bob@x.io", {"Contributor"}), lee |-> SeedUser("lee", "lee@x.io", {"Lead Editor"}), ed |-> SeedUser("edd", "ed@x.io", {"Editor"}), root |-> SeedUser("root", "root@x.io", {"Admin"}), zed |-> SeedUser("zed", "zed@x.io", {})]

\* req.user.roles || []
userRoles(r) == users[r].roles

(***************************************************************************)
(* The HTTP response of the last request: the handler, the requester, the  *)
(* identity the request named (0: none) and, for an attachment query, the   *)
(* parent type it named, the status, the identities of the documents at    *)
(* the top level of the body, and the Notes whose title or content the     *)
(* body carries, and the message of the body (kept for the auth routes).   *)
(***************************************************************************)
Response(op, r, kind, id, status, list, disclosed) == [op |-> op, actor |-> r, kind |-> kind, id |-> id, status |-> status, list |-> list, notes |-> disclosed, message |-> ""]

\* the response of a handler that ran alone: the requests in flight are not touched
ReplyKind(op, r, kind, id, status, list, disclosed) == resp' = Response(op, r, kind, id, status, list, disclosed) /\ UNCHANGED inflight

Reply(op, r, id, status, list, disclosed) == ReplyKind(op, r, "", id, status, list, disclosed)

\* populate(): a reference that resolves to no stored document is dropped
Stored(c, s) == Range(s) \cap DOMAIN c

\* identities the store has issued so far in a collection (stored or deleted)
Issued(k) == 1..(nextId[k] - 1)

(***************************************************************************)
(* Note controller                                                         *)
(***************************************************************************)
NoteTypes == {"text", "markdown", "todo", "code"}

ViewTypes == {"public", "private", "shared"}

\* the validators of noteSchema that save() runs before it writes
noteSchemaValid(d) == d.title # "" /\ d.type \in NoteTypes /\ d.view_type \in ViewTypes

\* POST /api/notes
createNote(r, title, content, type, tagIds, notebook_ids, connected_note_ids) ==
    LET id == nextId.note
        note == [UID |-> r, title |-> OrElse(title, ""), content |-> OrElse(content, ""), type |-> OrElse(type, "text"), tags |-> OrEmpty(tagIds), notebooks |-> OrEmpty(notebook_ids), connected_notes |-> OrEmpty(connected_note_ids), attachments |-> <<>>, comments |-> <<>>, view_type |-> "private"]
    IN  IF Falsy(title)
        THEN Reply("createNote", r, 0, 400, {}, {}) /\ UNCHANGED stores
        ELSE IF ~noteSchemaValid(note)
        THEN Reply("createNote", r, 0, 500, {}, {}) /\ UNCHANGED stores
        ELSE /\ id <= MaxNotes
             /\ notes' = Insert(notes, id, note)
             /\ nextId' = [nextId EXCEPT !.note = id + 1]
             /\ Reply("createNote", r, id, 201, {id}, {id})
             /\ UNCHANGED <<users, notebooks, tags, comments, attachments, groups>>

\* the query getNotes builds from the requester and the filters
getNotesQuery(r, notebook_id, tag_id, user_id) ==
    {n \in DOMAIN notes :
        /\ "Admin" \in userRoles(r) \/ notes[n].UID = r \/ notes[n].view_type = "public" \/ notes[n].view_type = "shared"
        /\ IsDef(notebook_id) => Includes(notes[n].notebooks, Val(notebook_id))
        /\ IsDef(tag_id) => Includes(notes[n].tags, Val(tag_id))
        /\ (IsDef(user_id) /\ "Admin" \in userRoles(r)) => notes[n].UID = Val(user_id)}

\* GET /api/notes
getNotes(r, notebook_id, tag_id, user_id) ==
    LET found == getNotesQuery(r, notebook_id, tag_id, user_id)
    IN  /\ Reply("getNotes", r, 0, 200, found, found \cup UNION {Stored(notes, notes[n].connected_notes) : n \in found})
        /\ UNCHANGED stores

\* canReadNote without the creator's exemption
canReadNote_noOwner(r, id) == "Admin" \in userRoles(r) \/ notes[id].view_type # "private"

\* the permission check of getNoteById on a stored note
canReadNote(r, id) == "Admin" \in userRoles(r) \/ notes[id].UID = r \/ notes[id].view_type # "private"

\* GET /api/notes/:id
getNoteById(r, id) ==
    /\ UNCHANGED stores
    /\ IF id \notin DOMAIN notes
       THEN Reply("getNoteById", r, id, 404, {}, {})
       ELSE IF ~canReadNote(r, id)
       THEN Reply("getNoteById", r, id, 403, {}, {})
       ELSE Reply("getNoteById", r, id, 200, {id}, {id} \cup Stored(notes, notes[id].connected_notes))

\* canEditNote without the creator's exemption
canEditNote_noOwner(r, id) == "Admin" \in userRoles(r) \/ "Editor" \in userRoles(r) \/ "Lead Editor" \in userRoles(r)

\* canEdit of updateNote
canEditNote(r, id) == "Admin" \in userRoles(r) \/ "Editor" \in userRoles(r) \/ "Lead Editor" \in userRoles(r) \/ notes[id].UID = r

\* PUT /api/notes/:id
updateNote(r, id, title, content, type, tagIds, notebook_ids, view_type) ==
    IF id \notin DOMAIN notes
    THEN Reply("updateNote", r, id, 404, {}, {}) /\ UNCHANGED stores
    ELSE IF ~canEditNote(r, id)
    THEN Reply("updateNote", r, id, 403, {}, {}) /\ UNCHANGED stores
    ELSE LET old == notes[id]
             note == [old EXCEPT !.title = IF IsDef(title) THEN Val(title) ELSE @, !.content = IF IsDef(content) THEN Val(content) ELSE @, !.type = IF IsDef(type) THEN Val(type) ELSE @, !.tags = IF IsDef(tagIds) THEN Val(tagIds) ELSE @, !.notebooks = IF IsDef(notebook_ids) THEN Val(notebook_ids) ELSE @, !.view_type = IF IsDef(view_type) THEN Val(view_type) ELSE @]
         IN  IF ~noteSchemaValid(note)
             THEN Reply("updateNote", r, id, 500, {}, {}) /\ UNCHANGED stores
             ELSE /\ notes' = [notes EXCEPT ![id] = note]
                  /\ Reply("updateNote", r, id, 200, {id}, {id})
                  /\ UNCHANGED <<users, notebooks, tags, comments, attachments, groups, nextId>>

\* canDeleteNote that also lets the Contributor role through
canDeleteNote_contributor(r, id) == "Admin" \in userRoles(r) \/ "Editor" \in userRoles(r) \/ "Lead Editor" \in userRoles(r) \/ "Contributor" \in userRoles(r) \/ notes[id].UID = r

\* canDelete of deleteNote
canDeleteNote(r, id) == "Admin" \in userRoles(r) \/ "Editor" \in userRoles(r) \/ "Lead Editor" \in userRoles(r) \/ notes[id].UID = r

\* deleteCommentsOfNote with the deleteMany forgotten
deleteCommentsOfNote_skip(id) == comments

\* Comment.deleteMany({ note: id })
deleteCommentsOfNote(id) == [c \in {x \in DOMAIN comments : comments[x].note # id} |-> comments[c]]

\* Attachment.deleteMany({ parent_type: 'Note', parent_id: id })
deleteAttachmentsOfNote(id) == [a \in {x \in DOMAIN attachments : ~(attachments[x].parent_type = "Note" /\ attachments[x].parent_id = id)} |-> attachments[a]]

\* DELETE /api/notes/:id
deleteNote(r, id) ==
    IF id \notin DOMAIN notes
    THEN Reply("deleteNote", r, id, 404, {}, {}) /\ UNCHANGED stores
    ELSE IF ~canDeleteNote(r, id)
    THEN Reply("deleteNote", r, id, 403, {}, {}) /\ UNCHANGED stores
    ELSE /\ comments' = deleteCommentsOfNote(id)
         /\ attachments' = deleteAttachmentsOfNote(id)
         /\ notes' = Remove(notes, id)
         /\ Reply("deleteNote", r, id, 200, {}, {})
         /\ UNCHANGED <<users, notebooks, tags, groups, nextId>>

\* POST /api/notes/:id/tags
addTagToNote(r, id, tag_id) ==
    IF tag_id = None
    THEN Reply("addTagToNote", r, id, 400, {}, {}) /\ UNCHANGED stores
    ELSE IF id \notin DOMAIN notes \/ Val(tag_id) \notin DOMAIN tags
    THEN Reply("addTagToNote", r, id, 404, {}, {}) /\ UNCHANGED stores
    ELSE LET t == Val(tag_id)
         IN  /\ IF ~Includes(notes[id].tags, t)
                THEN /\ notes' = [notes EXCEPT ![id].tags = Push(@, t)]
                     /\ tags' = IF ~Includes(tags[t].notes, id) THEN [tags EXCEPT ![t].notes = Push(@, id)] ELSE tags
                ELSE UNCHANGED <<notes, tags>>
             /\ Reply("addTagToNote", r, id, 200, {id}, {id})
             /\ UNCHANGED <<users, notebooks, comments, attachments, groups, nextId>>

(***************************************************************************)
(* Tag controller                                                          *)
(***************************************************************************)
\* String.prototype.toLowerCase on the tag names and emails of the model
toLowerCase(s) == CASE s = "Work" -> "work" [] s = "HOME" -> "home" [] s = "Amy@X.io" -> "amy@x.io" [] s = " Amy@X.io" -> " amy@x.io" [] OTHER -> s

\* existingTag looked up by the name as it was sent
existingTag_exact(tag_name) == {t \in DOMAIN tags : tags[t].tag_name = tag_name}

\* Tag.findOne({ tag_name: tag_name.toLowerCase() })
existingTag(tag_name) == {t \in DOMAIN tags : tags[t].tag_name = toLowerCase(tag_name)}

\* POST /api/tags
createTag(r, tag_name) ==
    IF Falsy(tag_name)
    THEN Reply("createTag", r, 0, 400, {}, {}) /\ UNCHANGED stores
    ELSE IF existingTag(Val(tag_name)) # {}
    THEN Reply("createTag", r, 0, 400, {}, {}) /\ UNCHANGED stores
    ELSE LET id == nextId.tag
         IN  /\ id <= MaxTags
             /\ tags' = Insert(tags, id, [tag_name |-> toLowerCase(Val(tag_name)), notes |-> <<>>])
             /\ nextId' = [nextId EXCEPT !.tag = id + 1]
             /\ Reply("createTag", r, id, 201, {id}, {})
             /\ UNCHANGED <<users, notes, notebooks, comments, attachments, groups>>

\* GET /api/tags
getTags(r) ==
    /\ Reply("getTags", r, 0, 200, DOMAIN tags, UNION {Stored(notes, tags[t].notes) : t \in DOMAIN tags})
    /\ UNCHANGED stores

\* pullTagFromNotes with the updateMany forgotten
pullTagFromNotes_skip(id) == notes

\* Note.updateMany({ tags: id }, { $pull: { tags: id } })
pullTagFromNotes(id) == [n \in DOMAIN notes |-> [notes[n] EXCEPT !.tags = Pull(@, id)]]

\* DELETE /api/tags/:id
deleteTag(r, id) ==
    IF id \notin DOMAIN tags
    THEN Reply("deleteTag", r, id, 404, {}, {}) /\ UNCHANGED stores
    ELSE /\ notes' = pullTagFromNotes(id)
         /\ tags' = Remove(tags, id)
         /\ Reply("deleteTag", r, id, 200, {}, {})
         /\ UNCHANGED <<users, notebooks, comments, attachments, groups, nextId>>

(***************************************************************************)
(* Notebook controller.  parent_notebook 0 is null.                        *)
(***************************************************************************)
\* POST /api/notebooks
createNotebook(r, notebook_name, parent_notebook_id) ==
    IF Falsy(notebook_name)
    THEN Reply("createNotebook", r, 0, 400, {}, {}) /\ UNCHANGED stores
    ELSE LET id == nextId.notebook
         IN  /\ id <= MaxNotebooks
             /\ notebooks' = Insert(notebooks, id, [notebook_name |-> Val(notebook_name), owner |-> r, parent_notebook |-> IF parent_notebook_id = None THEN 0 ELSE Val(parent_notebook_id), notes |-> <<>>, accessible_groups |-> <<>>])
             /\ nextId' = [nextId EXCEPT !.notebook = id + 1]
             /\ Reply("createNotebook", r, id, 201, {id}, {})
             /\ UNCHANGED <<users, notes, tags, comments, attachments, groups>>

\* getNotebooksQuery with $in given the Groups the requester is a member of
getNotebooksQuery_groups(r) == {b \in DOMAIN notebooks : "Admin" \in userRoles(r) \/ notebooks[b].owner = r \/ \E g \in {x \in DOMAIN groups : Includes(groups[x].members, r)} : Includes(notebooks[b].accessible_groups, g)}

\* the query getNotebooks builds: { accessible_groups: { $in: [] } } matches nothing
getNotebooksQuery(r) == {b \in DOMAIN notebooks : "Admin" \in userRoles(r) \/ notebooks[b].owner = r \/ \E g \in {} : Includes(notebooks[b].accessible_groups, g)}

\* GET /api/notebooks
getNotebooks(r) ==
    LET found == getNotebooksQuery(r)
    IN  /\ Reply("getNotebooks", r, 0, 200, found, UNION {Stored(notes, notebooks[b].notes) : b \in found})
        /\ UNCHANGED stores

\* GET /api/notebooks/:id
getNotebookById(r, id) ==
    /\ UNCHANGED stores
    /\ IF id \notin DOMAIN notebooks
       THEN Reply("getNotebookById", r, id, 404, {}, {})
       ELSE Reply("getNotebookById", r, id, 200, {id}, Stored(notes, notebooks[id].notes))

\* canEditNotebook without the Admin exemption
canEditNotebook_noAdmin(r, id) == "Lead Editor" \in userRoles(r) \/ notebooks[id].owner = r

\* canEdit of updateNotebook
canEditNotebook(r, id) == "Admin" \in userRoles(r) \/ "Lead Editor" \in userRoles(r) \/ notebooks[id].owner = r

\* PUT /api/notebooks/:id
updateNotebook(r, id, notebook_name, parent_notebook_id) ==
    IF id \notin DOMAIN notebooks
    THEN Reply("updateNotebook", r, id, 404, {}, {}) /\ UNCHANGED stores
    ELSE IF ~canEditNotebook(r, id)
    THEN Reply("updateNotebook", r, id, 403, {}, {}) /\ UNCHANGED stores
    ELSE LET nb == [notebooks[id] EXCEPT !.notebook_name = IF IsDef(notebook_name) THEN Val(notebook_name) ELSE @, !.parent_notebook = IF IsDef(parent_notebook_id) THEN Val(parent_notebook_id) ELSE @]
         IN  IF nb.notebook_name = ""
             THEN Reply("updateNotebook", r, id, 500, {}, {}) /\ UNCHANGED stores
             ELSE /\ notebooks' = [notebooks EXCEPT ![id] = nb]
                  /\ Reply("updateNotebook", r, id, 200, {id}, {})
                  /\ UNCHANGED <<users, notes, tags, comments, attachments, groups, nextId>>

\* canDelete of deleteNotebook
canDeleteNotebook(r, id) == "Admin" \in userRoles(r) \/ "Lead Editor" \in userRoles(r) \/ notebooks[id].owner = r

\* Note.updateMany({ notebooks: id }, { $pull: { notebooks: id } })
pullNotebookFromNotes(id) == [n \in DOMAIN notes |-> [notes[n] EXCEPT !.notebooks = Pull(@, id)]]

\* DELETE /api/notebooks/:id
deleteNotebook(r, id) ==
    IF id \notin DOMAIN notebooks
    THEN Reply("deleteNotebook", r, id, 404, {}, {}) /\ UNCHANGED stores
    ELSE IF ~canDeleteNotebook(r, id)
    THEN Reply("deleteNotebook", r, id, 403, {}, {}) /\ UNCHANGED stores
    ELSE /\ notes' = pullNotebookFromNotes(id)
         /\ notebooks' = Remove(notebooks, id)
         /\ Reply("deleteNotebook", r, id, 200, {}, {})
         /\ UNCHANGED <<users, tags, comments, attachments, groups, nextId>>

\* POST /api/notebooks/:id/notes
addNoteToNotebook(r, id, note_id) ==
    IF note_id = None
    THEN Reply("addNoteToNotebook", r, id, 400, {}, {}) /\ UNCHANGED stores
    ELSE IF id \notin DOMAIN notebooks \/ Val(note_id) \notin DOMAIN notes
    THEN Reply("addNoteToNotebook", r, id, 404, {}, {}) /\ UNCHANGED stores
    ELSE LET n == Val(note_id)
         IN  /\ notebooks' = IF ~Includes(notebooks[id].notes, n) THEN [notebooks EXCEPT ![id].notes = Push(@, n)] ELSE notebooks
             /\ notes' = IF ~Includes(notes[n].notebooks, id) THEN [notes EXCEPT ![n].notebooks = Push(@, id)] ELSE notes
             /\ Reply("addNoteToNotebook", r, id, 200, {id}, Stored(notes, notebooks'[id].notes))
             /\ UNCHANGED <<users, tags, comments, attachments, groups, nextId>>

(***************************************************************************)
(* Group controller                                                        *)
(***************************************************************************)
\* Notebook.updateMany({ _id: { $in: ids } }, { $addToSet: { accessible_groups: g } })
addGroupToNotebooks(nbs, ids, g) == [b \in DOMAIN nbs |-> IF Includes(ids, b) THEN [nbs[b] EXCEPT !.accessible_groups = AddToSet(@, g)] ELSE nbs[b]]

\* Notebook.updateMany({ accessible_groups: g }, { $pull: { accessible_groups: g } })
pullGroupFromNotebooks(nbs, g) == [b \in DOMAIN nbs |-> [nbs[b] EXCEPT !.accessible_groups = Pull(@, g)]]

\* the permission check of createGroup
canCreateGroup(r) == "Lead Editor" \in userRoles(r) \/ "Admin" \in userRoles(r)

\* POST /api/groups
createGroup(r, group_name, member_ids, notebook_ids) ==
    IF ~canCreateGroup(r)
    THEN Reply("createGroup", r, 0, 403, {}, {}) /\ UNCHANGED stores
    ELSE IF Falsy(group_name)
    THEN Reply("createGroup", r, 0, 400, {}, {}) /\ UNCHANGED stores
    ELSE LET id == nextId.group
         IN  /\ id <= MaxGroups
             /\ groups' = Insert(groups, id, [group_name |-> Val(group_name), lead_editor |-> r, members |-> OrEmpty(member_ids), accessible_notebooks |-> OrEmpty(notebook_ids), attachments |-> <<>>])
             /\ notebooks' = IF IsDef(notebook_ids) /\ Len(Val(notebook_ids)) > 0 THEN addGroupToNotebooks(notebooks, Val(notebook_ids), id) ELSE notebooks
             /\ nextId' = [nextId EXCEPT !.group = id + 1]
             /\ Reply("createGroup", r, id, 201, {id}, {})
             /\ UNCHANGED <<users, notes, tags, comments, attachments>>

\* canEditGroup that lets any Lead Editor through
canEditGroup_anyLead(r, id) == "Admin" \in userRoles(r) \/ "Lead Editor" \in userRoles(r)

\* canEdit of updateGroup
canEditGroup(r, id) == "Admin" \in userRoles(r) \/ ("Lead Editor" \in userRoles(r) /\ groups[id].lead_editor = r)

\* PUT /api/groups/:id : the Notebook writes come before group.save(), whose
\* validation (group_name is required) may still reject the group
updateGroup(r, id, group_name, member_ids, notebook_ids) ==
    IF id \notin DOMAIN groups
    THEN Reply("updateGroup", r, id, 404, {}, {}) /\ UNCHANGED stores
    ELSE IF ~canEditGroup(r, id)
    THEN Reply("updateGroup", r, id, 403, {}, {}) /\ UNCHANGED stores
    ELSE LET g == [groups[id] EXCEPT !.group_name = IF IsDef(group_name) THEN Val(group_name) ELSE @, !.members = IF IsDef(member_ids) THEN Val(member_ids) ELSE @, !.accessible_notebooks = IF IsDef(notebook_ids) THEN Val(notebook_ids) ELSE @]
             pulled == pullGroupFromNotebooks(notebooks, id)
         IN  /\ notebooks' = IF IsDef(notebook_ids) THEN (IF Len(Val(notebook_ids)) > 0 THEN addGroupToNotebooks(pulled, Val(notebook_ids), id) ELSE pulled) ELSE notebooks
             /\ IF g.group_name = ""
                THEN Reply("updateGroup", r, id, 500, {}, {}) /\ UNCHANGED groups
                ELSE Reply("updateGroup", r, id, 200, {id}, {}) /\ groups' = [groups EXCEPT ![id] = g]
             /\ UNCHANGED <<users, notes, tags, comments, attachments, nextId>>

\* canDelete of deleteGroup
canDeleteGroup(r, id) == "Admin" \in userRoles(r) \/ ("Lead Editor" \in userRoles(r) /\ groups[id].lead_editor = r)

\* DELETE /api/groups/:id
deleteGroup(r, id) ==
    IF id \notin DOMAIN groups
    THEN Reply("deleteGroup", r, id, 404, {}, {}) /\ UNCHANGED stores
    ELSE IF ~canDeleteGroup(r, id)
    THEN Reply("deleteGroup", r, id, 403, {}, {}) /\ UNCHANGED stores
    ELSE /\ notebooks' = pullGroupFromNotebooks(notebooks, id)
         /\ groups' = Remove(groups, id)
         /\ Reply("deleteGroup", r, id, 200, {}, {})
         /\ UNCHANGED <<users, notes, tags, comments, attachments, nextId>>

\* canEdit of addMemberToGroup
canAddMember(r, id) == "Admin" \in userRoles(r) \/ ("Lead Editor" \in userRoles(r) /\ groups[id].lead_editor = r)

\* POST /api/groups/:id/members
addMemberToGroup(r, id, user_id) ==
    IF Falsy(user_id)
    THEN Reply("addMemberToGroup", r, id, 400, {}, {}) /\ UNCHANGED stores
    ELSE IF id \notin DOMAIN groups \/ Val(user_id) \notin DOMAIN users
    THEN Reply("addMemberToGroup", r, id, 404, {}, {}) /\ UNCHANGED stores
    ELSE IF ~canAddMember(r, id)
    THEN Reply("addMemberToGroup", r, id, 403, {}, {}) /\ UNCHANGED stores
    ELSE /\ groups' = IF ~Includes(groups[id].members, Val(user_id)) THEN [groups EXCEPT ![id].members = Push(@, Val(user_id))] ELSE groups
         /\ Reply("addMemberToGroup", r, id, 200, {id}, {})
         /\ UNCHANGED <<users, notes, notebooks, tags, comments, attachments, nextId>>

(***************************************************************************)
(* Comment controller                                                      *)
(***************************************************************************)
\* createComment with comment.save() moved before the lookup of the Note
createComment_saveFirst(r, note_id, comment_text) ==
    IF note_id = None \/ Falsy(comment_text)
    THEN Reply("createComment", r, 0, 400, {}, {}) /\ UNCHANGED stores
    ELSE LET id == nextId.comment
             n == Val(note_id)
         IN  /\ id <= MaxComments
             /\ comments' = Insert(comments, id, [user |-> r, note |-> n, comment_text |-> Val(comment_text), attachments |-> <<>>])
             /\ nextId' = [nextId EXCEPT !.comment = id + 1]
             /\ notes' = IF n \in DOMAIN notes THEN [notes EXCEPT ![n].comments = Push(@, id)] ELSE notes
             /\ Reply("createComment", r, IF n \in DOMAIN notes THEN id ELSE n, IF n \in DOMAIN notes THEN 201 ELSE 404, {}, {})
             /\ UNCHANGED <<users, notebooks, tags, attachments, groups>>

\* POST /api/comments
createComment(r, note_id, comment_text) ==
    IF note_id = None \/ Falsy(comment_text)
    THEN Reply("createComment", r, 0, 400, {}, {}) /\ UNCHANGED stores
    ELSE IF Val(note_id) \notin DOMAIN notes
    THEN Reply("createComment", r, Val(note_id), 404, {}, {}) /\ UNCHANGED stores
    ELSE LET id == nextId.comment
             n == Val(note_id)
         IN  /\ id <= MaxComments
             /\ comments' = Insert(comments, id, [user |-> r, note |-> n, comment_text |-> Val(comment_text), attachments |-> <<>>])
             /\ notes' = [notes EXCEPT ![n].comments = Push(@, id)]
             /\ nextId' = [nextId EXCEPT !.comment = id + 1]
             /\ Reply("createComment", r, id, 201, {id}, {})
             /\ UNCHANGED <<users, notebooks, tags, attachments, groups>>

\* GET /api/comments?note_id=... : the body populates each comment's note title
getComments(r, note_id) ==
    LET found == {c \in DOMAIN comments : IsDef(note_id) => comments[c].note = Val(note_id)}
    IN  /\ Reply("getComments", r, IF IsDef(note_id) THEN Val(note_id) ELSE 0, 200, found, {comments[c].note : c \in found} \cap DOMAIN notes)
        /\ UNCHANGED stores

\* canDeleteComment without the Editor exemption
canDeleteComment_noEditor(r, id) == "Admin" \in userRoles(r) \/ "Lead Editor" \in userRoles(r) \/ comments[id].user = r

\* canDelete of deleteComment
canDeleteComment(r, id) == "Admin" \in userRoles(r) \/ "Editor" \in userRoles(r) \/ "Lead Editor" \in userRoles(r) \/ comments[id].user = r

\* Note.findByIdAndUpdate(n, { $pull: { comments: id } })
pullCommentFromNote(n, id) == IF n \in DOMAIN notes THEN [notes EXCEPT ![n].comments = Pull(@, id)] ELSE notes

\* DELETE /api/comments/:id
deleteComment(r, id) ==
    IF id \notin DOMAIN comments
    THEN Reply("deleteComment", r, id, 404, {}, {}) /\ UNCHANGED stores
    ELSE IF ~canDeleteComment(r, id)
    THEN Reply("deleteComment", r, id, 403, {}, {}) /\ UNCHANGED stores
    ELSE /\ notes' = pullCommentFromNote(comments[id].note, id)
         /\ comments' = Remove(comments, id)
         /\ Reply("deleteComment", r, id, 200, {}, {})
         /\ UNCHANGED <<users, notebooks, tags, attachments, groups, nextId>>

(***************************************************************************)
(* Attachment controller                                                   *)
(***************************************************************************)
ParentTypes == {"Note", "Comment", "Group"}

\* the parent lookup of createAttachment and deleteAttachment
parentExists(parent_type, parent_id) ==
    CASE parent_type = "Note" -> parent_id \in DOMAIN notes
      [] parent_type = "Comment" -> parent_id \in DOMAIN comments
      [] parent_type = "Group" -> parent_id \in DOMAIN groups
      [] OTHER -> FALSE

\* POST /api/attachments
createAttachment(r, parent_type, parent_id, file_name, file_type, URL) ==
    IF Falsy(parent_type) \/ parent_id = None \/ Falsy(file_name) \/ Falsy(file_type) \/ Falsy(URL)
    THEN Reply("createAttachment", r, 0, 400, {}, {}) /\ UNCHANGED stores
    ELSE IF ~parentExists(Val(parent_type), Val(parent_id))
    THEN Reply("createAttachment", r, 0, 404, {}, {}) /\ UNCHANGED stores
    ELSE LET id == nextId.attachment
             pt == Val(parent_type)
             p == Val(parent_id)
         IN  /\ id <= MaxAttachments
             /\ attachments' = Insert(attachments, id, [parent_type |-> pt, parent_id |-> p, file_name |-> Val(file_name), file_type |-> Val(file_type), URL |-> Val(URL)])
             /\ notes' = IF pt = "Note" THEN [notes EXCEPT ![p].attachments = Push(@, id)] ELSE notes
             /\ comments' = IF pt = "Comment" THEN [comments EXCEPT ![p].attachments = Push(@, id)] ELSE comments
             /\ groups' = IF pt = "Group" THEN [groups EXCEPT ![p].attachments = Push(@, id)] ELSE groups
             /\ nextId' = [nextId EXCEPT !.attachment = id + 1]
             /\ Reply("createAttachment", r, id, 201, {id}, {})
             /\ UNCHANGED <<users, notebooks, tags>>

\* GET /api/attachments?parent_type=...&parent_id=...
getAttachments(r, parent_type, parent_id) ==
    LET found == {a \in DOMAIN attachments : (~Falsy(parent_type) => attachments[a].parent_type = Val(parent_type)) /\ (IsDef(parent_id) => attachments[a].parent_id = Val(parent_id))}
    IN  /\ ReplyKind("getAttachments", r, OrElse(parent_type, ""), IF IsDef(parent_id) THEN Val(parent_id) ELSE 0, 200, found, {})
        /\ UNCHANGED stores

\* DELETE /api/attachments/:id
deleteAttachment(r, id) ==
    IF id \notin DOMAIN attachments
    THEN Reply("deleteAttachment", r, id, 404, {}, {}) /\ UNCHANGED stores
    ELSE LET pt == attachments[id].parent_type
             p == attachments[id].parent_id
         IN  /\ notes' = IF pt = "Note" /\ p \in DOMAIN notes THEN [notes EXCEPT ![p].attachments = Pull(@, id)] ELSE notes
             /\ comments' = IF pt = "Comment" /\ p \in DOMAIN comments THEN [comments EXCEPT ![p].attachments = Pull(@, id)] ELSE comments
             /\ groups' = IF pt = "Group" /\ p \in DOMAIN groups THEN [groups EXCEPT ![p].attachments = Pull(@, id)] ELSE groups
             /\ attachments' = Remove(attachments, id)
             /\ Reply("deleteAttachment", r, id, 200, {}, {})
             /\ UNCHANGED <<users, notebooks, tags, nextId>>

(***************************************************************************)
(* Auth controller.  The routes take no token: the requester is anonymous. *)
(***************************************************************************)
\* the response of an auth route: on success the body carries the user
AuthResponse(op, status, message, user) == [op |-> op, actor |-> "anonymous", kind |-> "", id |-> 0, status |-> status, list |-> user, notes |-> {}, message |-> message]

ReplyAuth(op, status, message, user) == resp' = AuthResponse(op, status, message, user) /\ UNCHANGED inflight

\* the trim setter of the schema on the names and emails of the model
trim(s) == CASE s = " Amy@X.io" -> "Amy@X.io" [] s = " amy@x.io" -> "amy@x.io" [] s = " amy" -> "amy" [] OTHER -> s

\* the setters of userSchema.email (lowercase, trim), run on documents and on query values
emailSetter(e) == trim(toLowerCase(e))

\* the storage identity of the i-th User that signs up
newUserId(i) == CASE i = 1 -> "u1" [] i = 2 -> "u2" [] i = 3 -> "u3" [] OTHER -> "u4"

\* existingUser with the user_name clause of the $or forgotten
existingUser_emailOnly(user_name, email) == {u \in DOMAIN users : users[u].email = emailSetter(email)}

\* User.findOne({ $or: [{ email }, { user_name }] })
existingUser(user_name, email) == {u \in DOMAIN users : users[u].email = emailSetter(email) \/ users[u].user_name = trim(user_name)}

\* the validators of userSchema that save() runs: minlength of user_name and password, the roles enum
userSchemaValid(d, password) == Len(d.user_name) >= 3 /\ Len(password) >= 6 /\ d.roles \subseteq Roles

\* userIndexFree with no unique index built
userIndexFree_none(d) == TRUE

\* the unique indexes on user_name and email
userIndexFree(d) == \A u \in DOMAIN users : users[u].email # d.email /\ users[u].user_name # d.user_name

\* the document signup builds with new User({...}), setters applied
newUser(user_name, email, password, roles) == [roles |-> IF IsDef(roles) THEN Val(roles) ELSE {"Contributor"}, user_name |-> trim(Val(user_name)), email |-> emailSetter(Val(email)), password |-> bcryptHash(Val(password))]

\* the response signup gives in the current store, with the document it saves
signupResponse(user_name, first_name, last_name, email, password, roles) ==
    IF Falsy(user_name) \/ Falsy(first_name) \/ Falsy(last_name) \/ Falsy(email) \/ Falsy(password)
    THEN [status |-> 400, message |-> "Please provide all required fields", saved |-> {}]
    ELSE IF existingUser(Val(user_name), Val(email)) # {}
    THEN [status |-> 400, message |-> "User with this email or username already exists", saved |-> {}]
    ELSE IF ~userSchemaValid(newUser(user_name, email, password, roles), Val(password)) \/ ~userIndexFree(newUser(user_name, email, password, roles))
    THEN [status |-> 500, message |-> "Error creating user account", saved |-> {}]
    ELSE [status |-> 201, message |-> "User created successfully", saved |-> {newUser(user_name, email, password, roles)}]

\* POST /api/auth/signup
signup(user_name, first_name, last_name, email, password, roles) ==
    LET body == signupResponse(user_name, first_name, last_name, email, password, roles)
        id == newUserId(nextId.user)
    IN  IF body.saved = {}
        THEN ReplyAuth("signup", body.status, body.message, {}) /\ UNCHANGED stores
        ELSE /\ nextId.user <= MaxSignups
             /\ users' = Insert(users, id, CHOOSE d \in body.saved : TRUE)
             /\ nextId' = [nextId EXCEPT !.user = @ + 1]
             /\ ReplyAuth("signup", body.status, body.message, {id})
             /\ UNCHANGED <<notes, notebooks, tags, comments, attachments, groups>>

\* comparePassword that accepts every candidate
comparePassword_any(candidatePassword, hash) == TRUE

\* userSchema.methods.comparePassword: bcrypt.compare
comparePassword(candidatePassword, hash) == bcryptHash(candidatePassword) = hash

\* User.findOne({ email: email.toLowerCase() })
findByEmail(email) == {u \in DOMAIN users : users[u].email = emailSetter(toLowerCase(email))}

\* the response login gives to email and password in the current store
loginResponse(email, password) ==
    IF Falsy(email) \/ Falsy(password)
    THEN [status |-> 400, message |-> "Please provide email and password", user |-> {}]
    ELSE IF findByEmail(Val(email)) = {}
    THEN [status |-> 401, message |-> "Invalid email or password", user |-> {}]
    ELSE IF ~comparePassword(Val(password), users[CHOOSE u \in findByEmail(Val(email)) : TRUE].password)
    THEN [status |-> 401, message |-> "Invalid email or password", user |-> {}]
    ELSE [status |-> 200, message |-> "Login successful", user |-> findByEmail(Val(email))]

\* POST /api/auth/login
login(email, password) ==
    LET body == loginResponse(email, password)
    IN  ReplyAuth("login", body.status, body.message, body.user) /\ UNCHANGED stores

(***************************************************************************)
(* Requests in flight.  Node runs a handler up to its next await, so each  *)
(* store read and each store write of a handler is one step; two requests  *)
(* are in flight at most.  A slot keeps what the handler holds in memory.  *)
(***************************************************************************)
Slots == {"p", "q"}

Idle == [op |-> "idle", pc |-> "done", actor |-> "none", id |-> 0, ref |-> 0, found |-> FALSE, noteHas |-> FALSE, tagHas |-> FALSE, name |-> "", mail |-> "", text |-> ""]

\* slot s moves to pc with the fields f of its record replaced
Goto(s, rec) == inflight' = [inflight EXCEPT ![s] = rec]

\* slot s answers and is free again
Finish(s, response) == inflight' = [inflight EXCEPT ![s] = Idle] /\ resp' = response

\* the process dies while the request of slot s is in flight: no answer
crash(s) ==
    /\ inflight[s].op # "idle"
    /\ inflight' = [inflight EXCEPT ![s] = Idle]
    /\ UNCHANGED <<stores, resp>>

\* save() of a document that is no longer stored writes nothing; the build
\* either rejects (DocumentNotFoundError) or resolves
SaveOfMissing == {"rejects", "resolves"}

\* addTagToNote: const note = await Note.findById(id)
addTagToNote_findNote(s, r, id, tag_id) ==
    /\ inflight[s].op = "idle"
    /\ Goto(s, [Idle EXCEPT !.op = "addTagToNote", !.pc = "findTag", !.actor = r, !.id = id, !.ref = tag_id, !.found = id \in DOMAIN notes, !.noteHas = id \in DOMAIN notes /\ Includes(notes[id].tags, tag_id)])
    /\ UNCHANGED <<stores, resp>>

\* !note.tags.includes(tag_id) with the test forgotten
noteLacksTag_always(q) == TRUE

\* !note.tags.includes(tag_id) on the note the handler read
noteLacksTag(q) == ~q.noteHas

\* addTagToNote: const tag = await Tag.findById(tag_id), the 404 and the includes test
addTagToNote_findTag(s) ==
    LET q == inflight[s]
    IN  /\ q.op = "addTagToNote" /\ q.pc = "findTag"
        /\ UNCHANGED stores
        /\ IF ~q.found \/ q.ref \notin DOMAIN tags
           THEN Finish(s, Response("addTagToNote", q.actor, "", q.id, 404, {}, {}))
           ELSE IF noteLacksTag(q)
           THEN Goto(s, [q EXCEPT !.pc = "saveNote", !.tagHas = Includes(tags[q.ref].notes, q.id)]) /\ UNCHANGED resp
           ELSE Finish(s, Response("addTagToNote", q.actor, "", q.id, 200, {q.id}, {q.id}))

\* addTagToNote: note.tags.push(tag_id); await note.save()
addTagToNote_saveNote(s) ==
    LET q == inflight[s]
    IN  /\ q.op = "addTagToNote" /\ q.pc = "saveNote"
        /\ UNCHANGED <<users, notebooks, tags, comments, attachments, groups, nextId>>
        /\ IF q.id \notin DOMAIN notes
           THEN /\ UNCHANGED notes
                /\ \E outcome \in SaveOfMissing :
                      IF outcome = "rejects"
                      THEN Finish(s, Response("addTagToNote", q.actor, "", q.id, 500, {}, {}))
                      ELSE IF ~q.tagHas THEN Goto(s, [q EXCEPT !.pc = "saveTag"]) /\ UNCHANGED resp
                      ELSE Finish(s, Response("addTagToNote", q.actor, "", q.id, 200, {}, {}))
           ELSE /\ notes' = [notes EXCEPT ![q.id].tags = Push(@, q.ref)]
                /\ IF ~q.tagHas THEN Goto(s, [q EXCEPT !.pc = "saveTag"]) /\ UNCHANGED resp
                   ELSE Finish(s, Response("addTagToNote", q.actor, "", q.id, 200, {q.id}, {q.id}))

\* addTagToNote: tag.notes.push(id); await tag.save(); res.json
addTagToNote_saveTag(s) ==
    LET q == inflight[s]
    IN  /\ q.op = "addTagToNote" /\ q.pc = "saveTag"
        /\ UNCHANGED <<users, notes, notebooks, comments, attachments, groups, nextId>>
        /\ IF q.ref \notin DOMAIN tags
           THEN /\ UNCHANGED tags
                /\ \E outcome \in SaveOfMissing :
                      Finish(s, Response("addTagToNote", q.actor, "", q.id, IF outcome = "rejects" THEN 500 ELSE 200, {}, {}))
           ELSE /\ tags' = [tags EXCEPT ![q.ref].notes = Push(@, q.id)]
                /\ Finish(s, Response("addTagToNote", q.actor, "", q.id, 200, {q.id} \cap DOMAIN notes, {q.id} \cap DOMAIN notes))

\* deleteTag: const tag = await Tag.findById(id) and the 404
deleteTag_find(s, r, id) ==
    /\ inflight[s].op = "idle"
    /\ UNCHANGED stores
    /\ IF id \notin DOMAIN tags
       THEN Finish(s, Response("deleteTag", r, "", id, 404, {}, {}))
       ELSE Goto(s, [Idle EXCEPT !.op = "deleteTag", !.pc = "pull", !.actor = r, !.id = id, !.found = TRUE]) /\ UNCHANGED resp

\* deleteTag: await Note.updateMany({ tags: id }, { $pull: { tags: id } })
deleteTag_pull(s) ==
    LET q == inflight[s]
    IN  /\ q.op = "deleteTag" /\ q.pc = "pull"
        /\ notes' = pullTagFromNotes(q.id)
        /\ Goto(s, [q EXCEPT !.pc = "delete"])
        /\ UNCHANGED <<users, notebooks, tags, comments, attachments, groups, nextId, resp>>

\* deleteTag: await Tag.findByIdAndDelete(id); res.json
deleteTag_delete(s) ==
    LET q == inflight[s]
    IN  /\ q.op = "deleteTag" /\ q.pc = "delete"
        /\ tags' = Remove(tags, q.id)
        /\ Finish(s, Response("deleteTag", q.actor, "", q.id, 200, {}, {}))
        /\ UNCHANGED <<users, notes, notebooks, comments, attachments, groups, nextId>>

Init ==
    /\ users = SeedUsers
    /\ notes = <<>>
    /\ notebooks = <<>>
    /\ tags = <<>>
    /\ comments = <<>>
    /\ attachments = <<>>
    /\ groups = <<>>
    /\ nextId = [note |-> 1, notebook |-> 1, tag |-> 1, comment |-> 1, attachment |-> 1, group |-> 1, user |-> 1]
    /\ resp = [op |-> "none", actor |-> "none", kind |-> "", id |-> 0, status |-> 0, list |-> {}, notes |-> {}, message |-> ""]
    /\ inflight = [s \in Slots |-> Idle]

(***************************************************************************)
(* Tag linking: the requests that write Note.tags and Tag.notes.           *)
(***************************************************************************)
TagActors == {"alice", "root"}

TagNames == {"Work", "work"}

TagLists == Arrays(Issued("tag"), MaxArr)

NextTags ==
    \/ \E r \in TagActors, n \in TagNames : createTag(r, Some(n))
    \/ \E r \in TagActors, t \in Issued("tag") : deleteTag(r, t)
    \/ \E r \in TagActors, ts \in TagLists : createNote(r, Some("a"), None, None, Some(ts), None, None)
    \/ \E r \in TagActors, n \in Issued("note"), ts \in TagLists : updateNote(r, n, None, None, None, Some(ts), None, None)
    \/ \E r \in TagActors, n \in Issued("note") : deleteNote(r, n)
    \/ \E r \in TagActors, n \in Issued("note"), t \in Issued("tag") : addTagToNote(r, n, Some(t))

SpecTags == Init /\ [][NextTags]_vars

\* C1: after any sequence of completed createNote, updateNote, addTagToNote,
\* deleteNote and deleteTag requests, a stored Tag T is in a stored Note N's tags
\* exactly when N is in T.notes, no Tag's notes names a deleted Note and no
\* Note's tags names a deleted Tag
C1_TagNoteAgree ==
    /\ \A t \in DOMAIN tags, n \in DOMAIN notes : Includes(notes[n].tags, t) <=> Includes(tags[t].notes, n)
    /\ \A t \in DOMAIN tags : Range(tags[t].notes) \subseteq DOMAIN notes
    /\ \A n \in DOMAIN notes : Range(notes[n].tags) \subseteq DOMAIN tags

(***************************************************************************)
(* Groups and the notebooks they may access.                               *)
(***************************************************************************)
NotebookLists == {None} \cup {Some(a) : a \in Arrays(Issued("notebook"), MaxArr)}

NextGroups ==
    \/ \E r \in {"lee"} : createNotebook(r, Some("nb"), None)
    \/ \E r \in {"lee"}, b \in Issued("notebook") : deleteNotebook(r, b)
    \/ \E r \in {"lee"}, bs \in NotebookLists : createGroup(r, Some("g"), None, bs)
    \/ \E r \in {"lee"}, g \in Issued("group"), bs \in NotebookLists : updateGroup(r, g, None, None, bs)
    \/ \E r \in {"lee"}, g \in Issued("group"), b \in Issued("notebook") : updateGroup(r, g, Some(""), None, Some(<<b>>))
    \/ \E r \in {"lee"}, g \in Issued("group") : deleteGroup(r, g)

SpecGroups == Init /\ [][NextGroups]_vars

GroupNotebookAgree ==
    /\ \A g \in DOMAIN groups, b \in DOMAIN notebooks : Includes(notebooks[b].accessible_groups, g) <=> Includes(groups[g].accessible_notebooks, b)
    /\ \A b \in DOMAIN notebooks : Range(notebooks[b].accessible_groups) \subseteq DOMAIN groups

\* C2: whenever the last request was a createGroup, updateGroup or deleteGroup
\* that completed (answered 200 or 201), each stored Group G is in a stored
\* Notebook B's accessible_groups exactly when B is in G.accessible_notebooks,
\* and no Notebook lists a deleted Group
C2_GroupNotebookAgree == (resp.op \in {"createGroup", "updateGroup", "deleteGroup"} /\ resp.status \in {200, 201}) => GroupNotebookAgree

(***************************************************************************)
(* Who may create and change a Group.                                      *)
(***************************************************************************)
GroupActors == {"alice", "lee", "root"}

GroupAuthLists == {None, Some(<<>>)} \cup {Some(<<b>>) : b \in Issued("notebook")}

UserIds == {None, Some("bob"), Some("nobody")}

NextGroupAuth ==
    \/ \E r \in {"lee"} : createNotebook(r, Some("nb"), None)
    \/ \E r \in GroupActors, n \in {None, Some("g")}, bs \in GroupAuthLists : createGroup(r, n, None, bs)
    \/ \E r \in GroupActors, g \in Issued("group"), n \in {None, Some("h")}, bs \in GroupAuthLists : updateGroup(r, g, n, None, bs)
    \/ \E r \in GroupActors, g \in Issued("group") : deleteGroup(r, g)
    \/ \E r \in GroupActors, g \in Issued("group"), u \in UserIds : addMemberToGroup(r, g, u)

SpecGroupAuth == Init /\ [][NextGroupAuth]_vars

Holds(u, role) == role \in users[u].roles

OwnsGroupAsLead(u, g) == Holds(u, "Lead Editor") /\ groups[g].lead_editor = u

GroupWriteOps == {"updateGroup", "deleteGroup", "addMemberToGroup"}

\* C10 as stated: createGroup succeeds only for a Lead Editor or Admin and is
\* otherwise answered 403 creating nothing; updateGroup, deleteGroup and
\* addMemberToGroup on a stored Group by a requester without Admin succeed only
\* for the Group's own Lead Editor and are otherwise answered 403, leaving every
\* collection unchanged
C10_Original == [][
    /\ resp'.op = "createGroup" =>
          /\ resp'.status = 201 => (Holds(resp'.actor, "Lead Editor") \/ Holds(resp'.actor, "Admin"))
          /\ ~(Holds(resp'.actor, "Lead Editor") \/ Holds(resp'.actor, "Admin")) => (resp'.status = 403 /\ UNCHANGED stores)
    /\ (resp'.op \in GroupWriteOps /\ resp'.id \in DOMAIN groups /\ ~Holds(resp'.actor, "Admin")) =>
          /\ resp'.status = 200 => OwnsGroupAsLead(resp'.actor, resp'.id)
          /\ ~OwnsGroupAsLead(resp'.actor, resp'.id) => (resp'.status = 403 /\ UNCHANGED stores)
    ]_vars

\* C10 (amended): as C10, except that addMemberToGroup checks its input before
\* the permission: from a requester who is neither Admin nor the Group's own
\* Lead Editor it is answered 400 when user_id is missing, 404 when user_id
\* names no stored User and 403 otherwise; in every such case nothing changes
C10_GroupWritesNeedOwner == [][
    /\ resp'.op = "createGroup" =>
          /\ resp'.status = 201 => (Holds(resp'.actor, "Lead Editor") \/ Holds(resp'.actor, "Admin"))
          /\ ~(Holds(resp'.actor, "Lead Editor") \/ Holds(resp'.actor, "Admin")) => (resp'.status = 403 /\ UNCHANGED stores)
    /\ (resp'.op \in GroupWriteOps /\ resp'.id \in DOMAIN groups /\ ~Holds(resp'.actor, "Admin")) =>
          /\ resp'.status = 200 => OwnsGroupAsLead(resp'.actor, resp'.id)
          /\ ~OwnsGroupAsLead(resp'.actor, resp'.id) =>
                /\ UNCHANGED stores
                /\ resp'.op # "addMemberToGroup" => resp'.status = 403
                /\ \A u \in UserIds : addMemberToGroup(resp'.actor, resp'.id, u) =>
                      resp'.status = (IF u = None THEN 400 ELSE IF Val(u) \notin DOMAIN users THEN 404 ELSE 403)
    ]_vars

C10_Witness == resp.op = "updateGroup" /\ resp.status = 403 /\ Holds(resp.actor, "Lead Editor") /\ resp.id \in DOMAIN groups /\ \E b \in DOMAIN notebooks : Includes(notebooks[b].accessible_groups, resp.id)

(***************************************************************************)
(* Notes and the notebooks that contain them.                              *)
(***************************************************************************)
NotebookIdLists == Arrays(Issued("notebook"), MaxArr)

NextNotebooks ==
    \/ \E r \in {"alice"} : createNotebook(r, Some("nb"), None)
    \/ \E r \in {"alice"}, b \in Issued("notebook") : deleteNotebook(r, b)
    \/ \E r \in {"alice"}, bs \in NotebookIdLists : createNote(r, Some("a"), None, None, None, Some(bs), None)
    \/ \E r \in {"alice"}, n \in Issued("note"), bs \in NotebookIdLists : updateNote(r, n, None, None, None, None, Some(bs), None)
    \/ \E r \in {"alice"}, n \in Issued("note") : deleteNote(r, n)
    \/ \E r \in {"alice"}, b \in Issued("notebook"), n \in Issued("note") : addNoteToNotebook(r, b, Some(n))

SpecNotebooks == Init /\ [][NextNotebooks]_vars

\* C3: after any sequence of completed createNote, updateNote, deleteNote,
\* addNoteToNotebook and deleteNotebook requests, a stored Notebook B is in a
\* stored Note N's notebooks exactly when N is in B.notes
C3_NotebookNoteAgree == \A n \in DOMAIN notes, b \in DOMAIN notebooks : Includes(notes[n].notebooks, b) <=> Includes(notebooks[b].notes, n)

(***************************************************************************)
(* Deleting a Note with its Comments and Attachments.                      *)
(***************************************************************************)
NextCascade ==
    \/ \E r \in {"alice"} : createNote(r, Some("a"), None, None, None, None, None)
    \/ \E r \in {"alice"}, n \in Issued("note") : deleteNote(r, n)
    \/ \E r \in {"alice"}, n \in Issued("note") : createComment(r, Some(n), Some("c"))
    \/ \E r \in {"alice"}, n \in Issued("note") : createAttachment(r, Some("Note"), Some(n), Some("f"), Some("image/png"), Some("u"))
    \/ \E r \in {"alice"}, n \in Issued("note") : getNoteById(r, n)
    \/ \E r \in {"alice"}, n \in Issued("note") : getComments(r, Some(n))
    \/ \E r \in {"alice"}, n \in Issued("note") : getAttachments(r, Some("Note"), Some(n))

SpecCascade == Init /\ [][NextCascade]_vars

\* the Notes that a deleteNote request removed
DeletedNotes == Issued("note") \ DOMAIN notes

\* C4: once deleteNote(N) has succeeded the store holds no Note N, no Comment
\* whose note is N and no Attachment with parent_type Note and parent_id N;
\* getNoteById(N) is answered 404, and getComments for note_id N and
\* getAttachments for parent_type Note, parent_id N return empty lists
C4_DeleteNoteCascades ==
    \A n \in DeletedNotes :
        /\ \A c \in DOMAIN comments : comments[c].note # n
        /\ \A a \in DOMAIN attachments : ~(attachments[a].parent_type = "Note" /\ attachments[a].parent_id = n)
        /\ (resp.op = "getNoteById" /\ resp.id = n) => resp.status = 404
        /\ (resp.op = "getComments" /\ resp.id = n) => resp.list = {}
        /\ (resp.op = "getAttachments" /\ resp.kind = "Note" /\ resp.id = n) => resp.list = {}

C4_Witness == resp.op = "getComments" /\ resp.id \in DeletedNotes /\ nextId.comment > 1 /\ nextId.attachment > 1 /\ DOMAIN comments = {} /\ DOMAIN attachments = {}

(***************************************************************************)
(* Attachments and the documents they hang on.                             *)
(***************************************************************************)
NextAttach ==
    \/ \E r \in {"root"} : createNote(r, Some("a"), None, None, None, None, None)
    \/ \E r \in {"root"}, n \in Issued("note") : deleteNote(r, n)
    \/ \E r \in {"root"}, n \in Issued("note") : createComment(r, Some(n), Some("c"))
    \/ \E r \in {"root"}, c \in Issued("comment") : deleteComment(r, c)
    \/ \E r \in {"root"} : createGroup(r, Some("g"), None, None)
    \/ \E r \in {"root"}, g \in Issued("group") : deleteGroup(r, g)
    \/ \E r \in {"root"}, pt \in ParentTypes, p \in Issued("note") \cup Issued("comment") \cup Issued("group") : createAttachment(r, Some(pt), Some(p), Some("f"), Some("image/png"), Some("u"))
    \/ \E r \in {"root"}, a \in Issued("attachment") : deleteAttachment(r, a)

SpecAttach == Init /\ [][NextAttach]_vars

\* C5: after any sequence of completed create and delete requests on Notes,
\* Comments, Groups and Attachments, the parent_id of every stored Attachment
\* identifies a document stored in the collection its parent_type names
C5_AttachmentParentStored ==
    \A a \in DOMAIN attachments :
        \/ attachments[a].parent_type = "Note" /\ attachments[a].parent_id \in DOMAIN notes
        \/ attachments[a].parent_type = "Comment" /\ attachments[a].parent_id \in DOMAIN comments
        \/ attachments[a].parent_type = "Group" /\ attachments[a].parent_id \in DOMAIN groups

(***************************************************************************)
(* What the read handlers disclose.                                        *)
(***************************************************************************)
ReadOps == {"getNotes", "getNoteById", "getNotebooks", "getNotebookById", "getTags", "getComments"}

OnlyContributor(u) == users[u].roles = {"Contributor"}

PrivateOfAnother(n, u) == notes[n].view_type = "private" /\ notes[n].UID # u

NextLeak ==
    \/ \E c \in {None} \cup {Some(<<n>>) : n \in Issued("note")} : createNote("alice", Some("a"), Some("secret"), None, None, None, c)
    \/ \E r \in {"bob"} : createNotebook(r, Some("nb"), None)
    \/ \E r \in {"bob"}, b \in Issued("notebook"), n \in Issued("note") : addNoteToNotebook(r, b, Some(n))
    \/ \E r \in {"bob"} : createTag(r, Some("work"))
    \/ \E r \in {"bob"}, n \in Issued("note"), t \in Issued("tag") : addTagToNote(r, n, Some(t))
    \/ \E r \in {"bob"}, n \in Issued("note") : createComment(r, Some(n), Some("c"))
    \/ \E r \in {"bob"} : getNotes(r, None, None, None)
    \/ \E r \in {"bob"}, n \in Issued("note") : getNoteById(r, n)
    \/ \E r \in {"bob"} : getNotebooks(r)
    \/ \E r \in {"bob"}, b \in Issued("notebook") : getNotebookById(r, b)
    \/ \E r \in {"bob"} : getTags(r)
    \/ \E r \in {"bob"}, n \in {None} \cup {Some(x) : x \in Issued("note")} : getComments(r, n)

SpecLeak == Init /\ [][NextLeak]_vars

\* C6: no read handler (getNotes, getNoteById, getNotebooks, getNotebookById,
\* getTags, getComments) returns to a requester holding only the Contributor
\* role the title or content of a private Note that another user created
C6_NoPrivateNoteDisclosed == (resp.op \in ReadOps /\ OnlyContributor(resp.actor)) => \A n \in resp.notes : ~PrivateOfAnother(n, resp.actor)

(***************************************************************************)
(* Reading notes: getNoteById and getNotes.                                *)
(***************************************************************************)
ReadActors == {"alice", "bob", "root"}

NextRead ==
    \/ \E r \in {"alice", "bob"}, ts \in {None, Some(<<1>>)}, bs \in {None, Some(<<1>>)} : createNote(r, Some("a"), None, None, ts, bs, None)
    \/ \E r \in {"alice"}, n \in Issued("note"), v \in ViewTypes : updateNote(r, n, None, None, None, None, None, Some(v))
    \/ \E r \in ReadActors, n \in 1..MaxNotes : getNoteById(r, n)
    \/ \E r \in ReadActors, b \in {None, Some(1)}, t \in {None, Some(1)}, u \in {None, Some("alice")} : getNotes(r, b, t, u)

SpecRead == Init /\ [][NextRead]_vars

\* C7: getNoteById on a stored Note is answered 403 exactly when the requester
\* lacks Admin, is not the Note's creator and the Note is private at the time
\* of the call, and 200 otherwise; getNotes never lists to a requester without
\* Admin a private Note that another user created, whatever the filters
C7_NoteReadAccess ==
    /\ (resp.op = "getNoteById" /\ resp.id \in DOMAIN notes) =>
          /\ resp.status \in {200, 403}
          /\ resp.status = 403 <=> (~Holds(resp.actor, "Admin") /\ notes[resp.id].UID # resp.actor /\ notes[resp.id].view_type = "private")
    /\ (resp.op = "getNotes" /\ ~Holds(resp.actor, "Admin")) => \A n \in resp.list : ~PrivateOfAnother(n, resp.actor)

C7_Witness == resp.op = "getNoteById" /\ resp.status = 200 /\ resp.actor = "bob" /\ resp.id \in DOMAIN notes /\ notes[resp.id].UID = "alice" /\ notes[resp.id].view_type = "public"

(***************************************************************************)
(* Who may update and delete a Note.                                       *)
(***************************************************************************)
PermActors == {"alice", "bob", "ed"}

NextPerm ==
    \/ \E r \in {"alice"} : createNote(r, Some("a"), None, None, None, None, None)
    \/ \E r \in {"alice"}, n \in Issued("note") : createComment(r, Some(n), Some("c"))
    \/ \E r \in {"alice"}, n \in Issued("note") : createAttachment(r, Some("Note"), Some(n), Some("f"), Some("image/png"), Some("u"))
    \/ \E r \in PermActors, n \in Issued("note") : updateNote(r, n, Some("b"), None, None, None, None, Some("public"))
    \/ \E r \in PermActors, n \in Issued("note") : deleteNote(r, n)

SpecPerm == Init /\ [][NextPerm]_vars

Privileged(u) == Holds(u, "Admin") \/ Holds(u, "Editor") \/ Holds(u, "Lead Editor")

\* C8: updateNote and deleteNote on a stored Note by a requester who holds none
\* of Admin, Editor, Lead Editor and did not create the Note are answered 403
\* and leave the Notes, the Comments and the Attachments unchanged
C8_NoteWriteDenied == [][
    (resp'.op \in {"updateNote", "deleteNote"} /\ resp'.id \in DOMAIN notes /\ ~Privileged(resp'.actor) /\ notes[resp'.id].UID # resp'.actor)
        => (resp'.status = 403 /\ UNCHANGED <<notes, comments, attachments>>)
    ]_vars

C8_Witness == resp.op = "deleteNote" /\ resp.status = 403 /\ resp.id \in DOMAIN notes /\ notes[resp.id].comments # <<>> /\ notes[resp.id].attachments # <<>>

(***************************************************************************)
(* What a Contributor may change of other users' documents.                *)
(***************************************************************************)
NextWrites ==
    \/ \E r \in {"alice"} : createNote(r, Some("a"), None, None, None, None, None)
    \/ \E r \in {"alice"} : createNotebook(r, Some("nb"), None)
    \/ \E r \in {"alice"} : createTag(r, Some("work"))
    \/ \E r \in {"alice"}, n \in Issued("note") : createAttachment(r, Some("Note"), Some(n), Some("f"), Some("image/png"), Some("u"))
    \/ \E r \in {"bob"}, n \in Issued("note") : updateNote(r, n, Some("b"), None, None, None, None, None)
    \/ \E r \in {"bob"}, n \in Issued("note") : deleteNote(r, n)
    \/ \E r \in {"bob"}, n \in Issued("note"), t \in Issued("tag") : addTagToNote(r, n, Some(t))
    \/ \E r \in {"bob"}, b \in Issued("notebook"), n \in Issued("note") : addNoteToNotebook(r, b, Some(n))
    \/ \E r \in {"bob"}, a \in Issued("attachment") : deleteAttachment(r, a)

SpecWrites == Init /\ [][NextWrites]_vars

\* the user a stored Attachment's parent belongs to ("none": the parent is gone)
ParentOwner(a) ==
    LET pt == attachments[a].parent_type
        p == attachments[a].parent_id
    IN  IF pt = "Note" /\ p \in DOMAIN notes THEN notes[p].UID
        ELSE IF pt = "Comment" /\ p \in DOMAIN comments THEN comments[p].user
        ELSE IF pt = "Group" /\ p \in DOMAIN groups THEN groups[p].lead_editor
        ELSE "none"

\* the request of this step changes or deletes a stored document of another user
TouchesAnothers ==
    \/ resp'.op \in {"updateNote", "deleteNote", "addTagToNote"} /\ resp'.id \in DOMAIN notes /\ notes[resp'.id].UID # resp'.actor
    \/ resp'.op = "addNoteToNotebook" /\ resp'.id \in DOMAIN notebooks /\ notebooks[resp'.id].owner # resp'.actor
    \/ resp'.op = "deleteAttachment" /\ resp'.id \in DOMAIN attachments /\ ParentOwner(resp'.id) \notin {resp'.actor, "none"}

\* C9: every request by a requester holding only the Contributor role that
\* modifies or deletes a stored resource the requester does not own
\* (updateNote, deleteNote, addTagToNote, addNoteToNotebook, deleteAttachment)
\* is answered 403 and changes nothing
C9_ContributorWritesDenied == [][(OnlyContributor(resp'.actor) /\ TouchesAnothers) => (resp'.status = 403 /\ UNCHANGED stores)]_vars

(***************************************************************************)
(* The Admin role in the permission checks.                                *)
(***************************************************************************)
\* no document of collection k has been created yet
NoneYet(k) == nextId[k] = 1

NextAdmin ==
    \/ \E r \in {"alice"} : createNote(r, Some("a"), None, None, None, None, None)
    \/ \E r \in {"alice"}, n \in Issued("note") : NoneYet("comment") /\ createComment(r, Some(n), Some("c"))
    \/ \E r \in {"alice"} : NoneYet("notebook") /\ createNotebook(r, Some("nb"), None)
    \/ \E r \in {"lee"} : NoneYet("group") /\ createGroup(r, Some("g"), None, None)
    \/ \E r \in {"root"}, n \in Issued("note") : getNoteById(r, n)
    \/ \E r \in {"root"}, n \in Issued("note") : updateNote(r, n, Some("a"), None, None, None, None, None)
    \/ \E r \in {"root"}, n \in Issued("note") : deleteNote(r, n)
    \/ \E r \in {"root"}, c \in Issued("comment") : deleteComment(r, c)
    \/ \E r \in {"root"}, g \in Issued("group") : updateGroup(r, g, Some("g"), None, None)
    \/ \E r \in {"root"}, g \in Issued("group") : deleteGroup(r, g)
    \/ \E r \in {"root"}, g \in Issued("group") : addMemberToGroup(r, g, Some("bob"))
    \/ \E r \in {"root"}, b \in Issued("notebook") : updateNotebook(r, b, Some("nb"), None)
    \/ \E r \in {"root"}, b \in Issued("notebook") : deleteNotebook(r, b)

SpecAdmin == Init /\ [][NextAdmin]_vars

NextEditors ==
    \/ \E r \in {"alice"} : createNote(r, Some("a"), None, None, None, None, None)
    \/ \E r \in {"alice"}, n \in Issued("note") : createComment(r, Some(n), Some("c"))
    \/ \E r \in {"alice"}, n \in Issued("note"), v \in ViewTypes : updateNote(r, n, None, None, None, None, None, Some(v))
    \/ \E r \in {"ed", "lee"}, n \in Issued("note") : updateNote(r, n, Some("b"), None, None, None, None, None)
    \/ \E r \in {"ed", "lee"}, n \in Issued("note") : deleteNote(r, n)
    \/ \E r \in {"ed", "lee"}, c \in Issued("comment") : deleteComment(r, c)

SpecEditors == Init /\ [][NextEditors]_vars

\* C12: a requester holding Editor or Lead Editor is never answered 403 by
\* updateNote, deleteNote or deleteComment, whoever created the Note or the
\* Comment and whatever the Note's view_type
C12_EditorsNeverForbidden == (resp.op \in {"updateNote", "deleteNote", "deleteComment"} /\ (Holds(resp.actor, "Editor") \/ Holds(resp.actor, "Lead Editor"))) => resp.status # 403

C12_Witness == resp.op = "deleteComment" /\ resp.actor = "ed" /\ resp.status = 200 /\ \E n \in DOMAIN notes : notes[n].UID = "alice" /\ notes[n].view_type = "private" /\ notes[n].title = "b"

(***************************************************************************)
(* The owner of a Note, a Comment or a Notebook.                           *)
(***************************************************************************)
OwnerActors == {"alice", "zed"}

NextOwners ==
    \/ \E r \in OwnerActors : createNote(r, Some("a"), None, None, None, None, None)
    \/ \E r \in OwnerActors, n \in Issued("note") : NoneYet("comment") /\ createComment(r, Some(n), Some("c"))
    \/ \E r \in OwnerActors : NoneYet("notebook") /\ createNotebook(r, Some("nb"), None)
    \/ \E r \in OwnerActors, n \in Issued("note") : updateNote(r, n, Some("a"), None, None, None, None, None)
    \/ \E r \in OwnerActors, n \in Issued("note") : deleteNote(r, n)
    \/ \E r \in OwnerActors, c \in Issued("comment") : deleteComment(r, c)
    \/ \E r \in OwnerActors, b \in Issued("notebook") : updateNotebook(r, b, Some("nb"), None)
    \/ \E r \in OwnerActors, b \in Issued("notebook") : deleteNotebook(r, b)

SpecOwners == Init /\ [][NextOwners]_vars

\* the request of this step updates or deletes a stored document whose owning
\* user is the requester
TouchesOwn ==
    \/ resp'.op \in {"updateNote", "deleteNote"} /\ resp'.id \in DOMAIN notes /\ notes[resp'.id].UID = resp'.actor
    \/ resp'.op = "deleteComment" /\ resp'.id \in DOMAIN comments /\ comments[resp'.id].user = resp'.actor
    \/ resp'.op \in {"updateNotebook", "deleteNotebook"} /\ resp'.id \in DOMAIN notebooks /\ notebooks[resp'.id].owner = resp'.actor

\* C13: updateNote, deleteNote, deleteComment, updateNotebook and
\* deleteNotebook are never answered 403 to the requester who is the owning
\* user of the Note, Comment or Notebook, even with no role beyond Contributor
\* or with no role at all
C13_OwnerNeverForbidden == [][TouchesOwn => resp'.status # 403]_vars

C13_Witness == resp.op = "deleteComment" /\ resp.actor = "zed" /\ resp.status = 200 /\ resp.id \notin DOMAIN comments /\ \E b \in DOMAIN notebooks : notebooks[b].owner = "zed"

(***************************************************************************)
(* Accounts: signup and login.                                             *)
(***************************************************************************)
SignupNames == {None, Some("amy"), Some(" amy"), Some("bea"), Some("al"), Some("alice")}

SignupEmails == {None, Some("amy@x.io"), Some("Amy@X.io"), Some(" Amy@X.io"), Some("alice@x.io"), Some("al@x.io")}

SignupPasswords == {Some("secret1"), Some("pw")}

LoginEmails == {Some("alice@x.io"), Some("amy@x.io"), Some("Amy@X.io")}

LoginPasswords == {None, Some("secret1"), Some("wrong12")}

NextAuth ==
    \/ \E u \in SignupNames, e \in SignupEmails, p \in SignupPasswords, f \in {None, Some("A")}, rs \in {None, Some({"Editor"})} : signup(u, f, Some("B"), e, p, rs)
    \/ \E e \in LoginEmails \cup {None}, p \in LoginPasswords : login(e, p)

SpecAuth == Init /\ [][NextAuth]_vars

\* C14: in every store a signup request whose email or user_name equals that
\* of a stored User is answered 400 and saves no User, and no signup answered
\* 400 changes the User collection
C14_SignupDuplicateRejected ==
    /\ [](\A u \in SignupNames, e \in SignupEmails, p \in SignupPasswords, f \in {None, Some("A")}, rs \in {None, Some({"Editor"})} :
            (\E x \in DOMAIN users : (IsDef(e) /\ users[x].email = Val(e)) \/ (IsDef(u) /\ users[x].user_name = Val(u)))
                => (signupResponse(u, f, Some("B"), e, p, rs).status = 400 /\ signupResponse(u, f, Some("B"), e, p, rs).saved = {}))
    /\ [][(resp'.op = "signup" /\ resp'.status = 400) => UNCHANGED users]_vars

C14_Witness == resp.op = "signup" /\ resp.status = 400 /\ resp.message = "User with this email or username already exists" /\ \E x \in DOMAIN users : users[x].user_name = "amy" /\ users[x].email # "amy@x.io"

\* the one response login gives when it refuses the credentials
LoginRefused == [status |-> 401, message |-> "Invalid email or password", user |-> {}]

\* C15: in every store, login with an email that no User has and login with a
\* stored email and a wrong password are both answered with the same status 401
\* and the same body, so the response does not tell whether the email exists
C15_LoginRefusalUniform ==
    /\ \A e \in LoginEmails, p \in LoginPasswords \ {None} :
          (findByEmail(Val(e)) = {} \/ \A x \in findByEmail(Val(e)) : users[x].password # bcryptHash(Val(p))) => loginResponse(e, p) = LoginRefused
    /\ (resp.op = "login" /\ resp.status = 401) => (resp.message = LoginRefused.message /\ resp.list = {})

C15_Witness == resp.op = "login" /\ resp.status = 401 /\ \A e \in LoginEmails : findByEmail(Val(e)) # {}

(***************************************************************************)
(* Requests that name documents which were never stored.                   *)
(***************************************************************************)
\* a well-formed identity that the store never issued in any collection
Unissued == MaxNotes + MaxTags + MaxNotebooks + MaxGroups + 1

UnissuedLists == {None, Some(<<Unissued>>)}

NextRefs ==
    \/ \E ts \in UnissuedLists, bs \in UnissuedLists, cs \in UnissuedLists : createNote("alice", Some("a"), None, None, ts, bs, cs)
    \/ \E n \in Issued("note"), ts \in UnissuedLists, bs \in UnissuedLists : updateNote("alice", n, None, None, None, ts, bs, None)
    \/ \E ms \in {None, Some(<<"nobody">>)}, bs \in UnissuedLists : createGroup("lee", Some("g"), ms, bs)
    \/ \E g \in Issued("group"), ms \in {None, Some(<<"nobody">>)}, bs \in UnissuedLists : updateGroup("lee", g, None, ms, bs)
    \/ \E p \in {None, Some(Unissued)} : createNotebook("alice", Some("nb"), p)
    \/ \E b \in Issued("notebook"), p \in {None, Some(Unissued)} : updateNotebook("alice", b, None, p)

SpecRefs == Init /\ [][NextRefs]_vars

\* C16: no stored Note, Group or Notebook references an identity that named no
\* document when the reference was written: the tags, notebooks and
\* connected_notes of a Note, the members and accessible_notebooks of a Group
\* and the parent_notebook of a Notebook all name documents the store has held
C16_ReferencesResolved ==
    /\ \A n \in DOMAIN notes : Range(notes[n].tags) \subseteq Issued("tag") /\ Range(notes[n].notebooks) \subseteq Issued("notebook") /\ Range(notes[n].connected_notes) \subseteq Issued("note")
    /\ \A g \in DOMAIN groups : Range(groups[g].members) \subseteq DOMAIN users /\ Range(groups[g].accessible_notebooks) \subseteq Issued("notebook")
    /\ \A b \in DOMAIN notebooks : notebooks[b].parent_notebook = 0 \/ notebooks[b].parent_notebook \in Issued("notebook")

(***************************************************************************)
(* The order of the checks of a handler: input, lookup, permission.        *)
(***************************************************************************)
OrderActors == {"alice", "root"}

\* the identities a request of this family names: issued ones and one that is not
OrderIds(k) == Issued(k) \cup {Unissued}

NextOrder ==
    \/ \E r \in {"bob"} : NoneYet("note") /\ createNote(r, Some("a"), None, None, None, None, None)
    \/ \E r \in {"bob"}, n \in Issued("note") : NoneYet("comment") /\ createComment(r, Some(n), Some("c"))
    \/ \E r \in {"bob"} : NoneYet("notebook") /\ createNotebook(r, Some("nb"), None)
    \/ \E r \in {"lee"} : NoneYet("group") /\ createGroup(r, Some("g"), None, None)
    \/ \E r \in OrderActors : createGroup(r, None, None, None)
    \/ \E r \in OrderActors, g \in OrderIds("group") : updateGroup(r, g, Some("g"), None, None)
    \/ \E r \in OrderActors, g \in OrderIds("group") : deleteGroup(r, g)
    \/ \E r \in OrderActors, g \in OrderIds("group"), u \in {None, Some("bob")} : addMemberToGroup(r, g, u)
    \/ \E r \in OrderActors, n \in OrderIds("note") : updateNote(r, n, Some("a"), None, None, None, None, None)
    \/ \E r \in OrderActors, n \in OrderIds("note") : deleteNote(r, n)
    \/ \E r \in OrderActors, c \in OrderIds("comment") : deleteComment(r, c)
    \/ \E r \in OrderActors, b \in OrderIds("notebook") : updateNotebook(r, b, Some("nb"), None)
    \/ \E r \in OrderActors, b \in OrderIds("notebook") : deleteNotebook(r, b)

SpecOrder == Init /\ [][NextOrder]_vars

\* the request of this step names a target that is not stored
TargetMissing ==
    \/ resp'.op \in {"updateGroup", "deleteGroup"} /\ resp'.id \notin DOMAIN groups
    \/ resp'.op \in {"updateNote", "deleteNote"} /\ resp'.id \notin DOMAIN notes
    \/ resp'.op = "deleteComment" /\ resp'.id \notin DOMAIN comments
    \/ resp'.op \in {"updateNotebook", "deleteNotebook"} /\ resp'.id \notin DOMAIN notebooks

\* C17: the checks run in the order input, lookup, permission, whoever asks:
\* createGroup without group_name and addMemberToGroup without user_id are
\* answered 400, and a request that names a target that is not stored
\* (updateGroup, deleteGroup, addMemberToGroup, updateNote, deleteNote,
\* deleteComment, updateNotebook, deleteNotebook) is answered 404, never 403
C17_ChecksInOrder == [][
    /\ \A r \in OrderActors : createGroup(r, None, None, None) => resp'.status = 400
    /\ \A r \in OrderActors, g \in OrderIds("group") : addMemberToGroup(r, g, None) => resp'.status = 400
    /\ \A r \in OrderActors, g \in OrderIds("group") \ DOMAIN groups : addMemberToGroup(r, g, Some("bob")) => resp'.status = 404
    /\ TargetMissing => resp'.status = 404
    ]_vars

(***************************************************************************)
(* Deleting a Tag.  Every Note of this family is created with a tag, so a  *)
(* stored Note without tags has lost them to deleteTag.                    *)
(***************************************************************************)
NextTagDelete ==
    \/ \E r \in {"alice"}, n \in {"work", "HOME"} : createTag(r, Some(n))
    \/ \E r \in {"alice"}, t \in Issued("tag") : createNote(r, Some("a"), Some("text"), None, Some(<<t>>), Some(<<1>>), None)
    \/ \E r \in {"alice"}, n \in Issued("note"), t \in Issued("tag") : addTagToNote(r, n, Some(t))
    \/ \E r \in {"bob"}, t \in Issued("tag") : deleteTag(r, t)

SpecTagDelete == Init /\ [][NextTagDelete]_vars

\* C18: a successful deleteTag(T) removes Tag T and leaves every other Tag as it
\* was; it deletes no Note, no Note's tags contains T afterwards, the tags of a
\* Note keep their other elements, and every other field of every Note is
\* unchanged
C18_DeleteTagFrame == [][
    (resp'.op = "deleteTag" /\ resp'.status = 200) =>
        /\ DOMAIN tags' = DOMAIN tags \ {resp'.id}
        /\ \A t \in DOMAIN tags' : tags'[t] = tags[t]
        /\ DOMAIN notes' = DOMAIN notes
        /\ \A n \in DOMAIN notes :
              /\ ~Includes(notes'[n].tags, resp'.id)
              /\ Range(notes'[n].tags) = Range(notes[n].tags) \ {resp'.id}
              /\ notes'[n] = [notes[n] EXCEPT !.tags = notes'[n].tags]
    ]_vars

C18_Witness == resp.op = "deleteTag" /\ resp.status = 200 /\ \E n \in DOMAIN notes, m \in DOMAIN notes, t \in DOMAIN tags : notes[n].tags = <<>> /\ notes[n].notebooks # <<>> /\ notes[m].tags = <<t>> /\ Includes(tags[t].notes, m)

(***************************************************************************)
(* Deleting a Notebook that Notes and Groups reference.                    *)
(***************************************************************************)
NextNotebookDelete ==
    \/ \E r \in {"lee"} : createNotebook(r, Some("nb"), None)
    \/ \E r \in {"lee"}, bs \in NotebookIdLists : createNote(r, Some("a"), None, None, None, Some(bs), None)
    \/ \E r \in {"lee"}, b \in Issued("notebook"), n \in Issued("note") : addNoteToNotebook(r, b, Some(n))
    \/ \E r \in {"lee"}, bs \in NotebookLists : createGroup(r, Some("g"), None, bs)
    \/ \E r \in {"lee"}, b \in Issued("notebook") : deleteNotebook(r, b)

SpecNotebookDelete == Init /\ [][NextNotebookDelete]_vars

\* C19: right after a successful deleteNotebook(B) no stored Note's notebooks
\* and no stored Group's accessible_notebooks contains B
C19_DeleteNotebookPulls ==
    (resp.op = "deleteNotebook" /\ resp.status = 200) =>
        /\ \A n \in DOMAIN notes : ~Includes(notes[n].notebooks, resp.id)
        /\ \A g \in DOMAIN groups : ~Includes(groups[g].accessible_notebooks, resp.id)

(***************************************************************************)
(* The tree of Notebooks.                                                  *)
(***************************************************************************)
\* parent_notebook_id of a request: absent, null, or an issued identity
ParentIds == {None, Some(0)} \cup {Some(b) : b \in Issued("notebook")}

NextForest ==
    \/ \E r \in {"alice"}, n \in {"nb", "work"}, p \in ParentIds : createNotebook(r, Some(n), p)
    \/ \E r \in {"alice"}, b \in Issued("notebook"), p \in ParentIds : updateNotebook(r, b, None, p)
    \/ \E r \in {"alice"}, b \in Issued("notebook") : deleteNotebook(r, b)

SpecForest == Init /\ [][NextForest]_vars

RECURSIVE Up(_, _)
\* the k-th ancestor of Notebook b (0: there is none)
Up(b, k) == IF k = 0 THEN b ELSE IF b \notin DOMAIN notebooks THEN 0 ELSE Up(notebooks[b].parent_notebook, k - 1)

\* C20: after any sequence of createNotebook, updateNotebook and deleteNotebook
\* requests the parent_notebook relation over the stored Notebooks is a
\* forest: every non-null parent_notebook names a stored Notebook and no
\* Notebook is its own ancestor
C20_NotebookForest ==
    /\ \A b \in DOMAIN notebooks : notebooks[b].parent_notebook = 0 \/ notebooks[b].parent_notebook \in DOMAIN notebooks
    /\ \A b \in DOMAIN notebooks, k \in 1..Cardinality(DOMAIN notebooks) : Up(b, k) # b

(***************************************************************************)
(* addTagToNote and deleteTag in flight together, and crashes.             *)
(***************************************************************************)
NextTagRace ==
    \/ createTag("alice", Some("work"))
    \/ NoneYet("note") /\ createNote("alice", Some("a"), None, None, None, None, None)
    \/ \E s \in Slots, n \in Issued("note"), t \in Issued("tag") : addTagToNote_findNote(s, "alice", n, t)
    \/ \E s \in Slots : addTagToNote_findTag(s)
    \/ \E s \in Slots : addTagToNote_saveNote(s)
    \/ \E s \in Slots : addTagToNote_saveTag(s)
    \/ \E s \in Slots, t \in Issued("tag") : deleteTag_find(s, "bob", t)
    \/ \E s \in Slots : deleteTag_pull(s)
    \/ \E s \in Slots : deleteTag_delete(s)
    \/ \E s \in Slots : crash(s)

SpecTagRace == Init /\ [][NextTagRace]_vars

\* stored Note n lists Tag t, and t is deleted or does not list n back
HalfLinked(n, t) == n \in DOMAIN notes /\ Includes(notes[n].tags, t) /\ (t \notin DOMAIN tags \/ ~Includes(tags[t].notes, n))

\* no request is in flight
Quiet == \A s \in Slots : inflight[s].op = "idle"

\* this step is a step of an addTagToNote request
AddTagStep == \E s \in Slots : inflight[s] # inflight'[s] /\ (inflight[s].op = "addTagToNote" \/ inflight'[s].op = "addTagToNote")

\* the pair is half linked and no addTagToNote(n, t) that read the Note before
\* it listed t is still on its way to the tag-side write
LeftHalfLinked(n, t) == HalfLinked(n, t) /\ \A s \in Slots : (inflight[s].op = "addTagToNote" /\ inflight[s].id = n /\ inflight[s].ref = t) => inflight[s].noteHas

\* C21: an interleaving of addTagToNote(N,T) with deleteTag(T), or a crash
\* between the two writes of addTagToNote, leaves a Note N that lists a Tag T
\* which is deleted or does not list N back, and no step of any addTagToNote
\* request, a retry included, repairs it: the pair stays half linked
C21_HalfLinkNotRepaired == [][\A n \in Issued("note"), t \in Issued("tag") : (LeftHalfLinked(n, t) /\ AddTagStep) => HalfLinked(n, t)']_vars

C21_Witness == Quiet /\ resp.op = "addTagToNote" /\ resp.status = 200 /\ \E n \in DOMAIN notes, t \in DOMAIN tags : HalfLinked(n, t)

(***************************************************************************)
(* createComment and deleteNote in flight together.                        *)
(***************************************************************************)
\* createComment: the 400, const note = await Note.findById(note_id), the 404
createComment_findNote(s, r, note_id, comment_text) ==
    /\ inflight[s].op = "idle"
    /\ UNCHANGED stores
    /\ IF note_id = None \/ Falsy(comment_text)
       THEN Finish(s, Response("createComment", r, "", 0, 400, {}, {}))
       ELSE IF Val(note_id) \notin DOMAIN notes
       THEN Finish(s, Response("createComment", r, "", Val(note_id), 404, {}, {}))
       ELSE Goto(s, [Idle EXCEPT !.op = "createComment", !.pc = "saveComment", !.actor = r, !.id = Val(note_id), !.found = TRUE, !.text = Val(comment_text)]) /\ UNCHANGED resp

\* createComment: new Comment({ ..., note: note_id, ... }); await comment.save()
createComment_saveComment(s) ==
    LET q == inflight[s]
        id == nextId.comment
    IN  /\ q.op = "createComment" /\ q.pc = "saveComment"
        /\ id <= MaxComments
        /\ comments' = Insert(comments, id, [user |-> q.actor, note |-> q.id, comment_text |-> q.text, attachments |-> <<>>])
        /\ nextId' = [nextId EXCEPT !.comment = id + 1]
        /\ Goto(s, [q EXCEPT !.pc = "saveNote", !.ref = id])
        /\ UNCHANGED <<users, notes, notebooks, tags, attachments, groups, resp>>

\* createComment: note.comments.push(comment._id); await note.save(); res.status(201)
createComment_saveNote(s) ==
    LET q == inflight[s]
    IN  /\ q.op = "createComment" /\ q.pc = "saveNote"
        /\ UNCHANGED <<users, notebooks, tags, comments, attachments, groups, nextId>>
        /\ IF q.id \notin DOMAIN notes
           THEN /\ UNCHANGED notes
                /\ \E outcome \in SaveOfMissing :
                      Finish(s, Response("createComment", q.actor, "", q.ref, IF outcome = "rejects" THEN 500 ELSE 201, {}, {}))
           ELSE /\ notes' = [notes EXCEPT ![q.id].comments = Push(@, q.ref)]
                /\ Finish(s, Response("createComment", q.actor, "", q.ref, 201, {q.ref} \cap DOMAIN comments, {}))

\* deleteNote: const note = await Note.findById(id), the 404 and the 403
deleteNote_find(s, r, id) ==
    /\ inflight[s].op = "idle"
    /\ UNCHANGED stores
    /\ IF id \notin DOMAIN notes
       THEN Finish(s, Response("deleteNote", r, "", id, 404, {}, {}))
       ELSE IF ~canDeleteNote(r, id)
       THEN Finish(s, Response("deleteNote", r, "", id, 403, {}, {}))
       ELSE Goto(s, [Idle EXCEPT !.op = "deleteNote", !.pc = "deleteComments", !.actor = r, !.id = id, !.found = TRUE]) /\ UNCHANGED resp

\* deleteNote: await Comment.deleteMany({ note: id })
deleteNote_deleteComments(s) ==
    LET q == inflight[s]
    IN  /\ q.op = "deleteNote" /\ q.pc = "deleteComments"
        /\ comments' = deleteCommentsOfNote(q.id)
        /\ Goto(s, [q EXCEPT !.pc = "deleteAttachments"])
        /\ UNCHANGED <<users, notes, notebooks, tags, attachments, groups, nextId, resp>>

\* deleteNote: await Attachment.deleteMany({ parent_type: 'Note', parent_id: id })
deleteNote_deleteAttachments(s) ==
    LET q == inflight[s]
    IN  /\ q.op = "deleteNote" /\ q.pc = "deleteAttachments"
        /\ attachments' = deleteAttachmentsOfNote(q.id)
        /\ Goto(s, [q EXCEPT !.pc = "deleteNote"])
        /\ UNCHANGED <<users, notes, notebooks, tags, comments, groups, nextId, resp>>

\* deleteNote: await Note.findByIdAndDelete(id); res.json
deleteNote_delete(s) ==
    LET q == inflight[s]
    IN  /\ q.op = "deleteNote" /\ q.pc = "deleteNote"
        /\ notes' = Remove(notes, q.id)
        /\ Finish(s, Response("deleteNote", q.actor, "", q.id, 200, {}, {}))
        /\ UNCHANGED <<users, notebooks, tags, comments, attachments, groups, nextId>>

NextCommentRace ==
    \/ \E r \in {"alice", "bob"} : createNote(r, Some("a"), None, None, None, None, None)
    \/ \E s \in Slots, r \in {"alice", "bob"}, n \in Issued("note") : createComment_findNote(s, r, Some(n), Some("hi"))
    \/ \E s \in Slots : createComment_saveComment(s)
    \/ \E s \in Slots : createComment_saveNote(s)
    \/ \E s \in Slots, r \in {"alice", "bob"}, n \in Issued("note") : deleteNote_find(s, r, n)
    \/ \E s \in Slots : deleteNote_deleteComments(s)
    \/ \E s \in Slots : deleteNote_deleteAttachments(s)
    \/ \E s \in Slots : deleteNote_delete(s)

SpecCommentRace == Init /\ [][NextCommentRace]_vars

\* C22: in every reachable state, the states reached by interleaving the store
\* reads and writes of createComment(N) with those of deleteNote(N) included,
\* every stored Comment's note field identifies a stored Note
C22_NoOrphanComment == \A c \in DOMAIN comments : comments[c].note \in DOMAIN notes

(***************************************************************************)
(* addTagToNote as a set insertion on both sides of the link.              *)
(***************************************************************************)
\* how many times x occurs in the array a
Occurrences(a, x) == Cardinality({i \in DOMAIN a : a[i] = x})

\* C23: for every stored Note N and Tag T and every prior state, the state
\* where T is already in N.tags but N is not in T.notes included, a successful
\* addTagToNote(N,T) ends with T in N.tags exactly once and N in T.notes exactly
\* once, and a call made when both already hold leaves the store unchanged
C23_AddTagIdempotent ==
    [][\A r \in TagActors, n \in Issued("note"), t \in Issued("tag") :
          (addTagToNote(r, n, Some(t)) /\ resp'.status = 200) =>
              /\ Occurrences(notes'[n].tags, t) = 1
              /\ Occurrences(tags'[t].notes, n) = 1
              /\ (Occurrences(notes[n].tags, t) = 1 /\ Occurrences(tags[t].notes, n) = 1) => UNCHANGED stores]_vars

(***************************************************************************)
(* Listing notebooks, with notebooks shared to a group of the requester.   *)
(***************************************************************************)
ListActors == {"alice", "bob", "lee", "root"}

NextShared ==
    \/ \E r \in {"alice", "lee"} : createNotebook(r, Some("nb"), None)
    \/ \E bs \in GroupAuthLists, u \in {"alice", "bob"} : createGroup("lee", Some("g"), Some(<<u>>), bs)
    \/ \E g \in Issued("group"), u \in {"alice", "bob"} : addMemberToGroup("lee", g, Some(u))
    \/ \E g \in Issued("group") : deleteGroup("lee", g)
    \/ \E r \in {"alice", "lee"}, b \in Issued("notebook") : deleteNotebook(r, b)
    \/ \E r \in ListActors : getNotebooks(r)

SpecShared == Init /\ [][NextShared]_vars

\* Notebook b is shared with a Group that r is a member of
SharedWith(b, r) == \E g \in DOMAIN groups : Includes(notebooks[b].accessible_groups, g) /\ Includes(groups[g].members, r)

CasedNames == {"Work", "work", "HOME", "home", "x"}

LowercaseNames == {"work", "home", "x"}

NextTagNames ==
    \/ \E r \in TagActors, n \in CasedNames : createTag(r, Some(n))
    \/ \E r \in TagActors : createTag(r, None)
    \/ \E r \in TagActors, t \in Issued("tag") : deleteTag(r, t)
    \/ \E r \in TagActors : getTags(r)

SpecTagNames == Init /\ [][NextTagNames]_vars

\* the names a and b are equal up to letter case
SameUpToCase(a, b) == toLowerCase(a) = toLowerCase(b)

\* C25: in every state reached by createTag and deleteTag requests no two
\* stored Tags have names equal up to letter case and every stored tag_name is
\* lowercase, and a createTag whose tag_name equals a stored Tag's name up to
\* case is answered 400 and creates no Tag
C25_TagNamesUnique ==
    /\ [](\A t \in DOMAIN tags : tags[t].tag_name \in LowercaseNames /\ \A u \in DOMAIN tags : SameUpToCase(tags[t].tag_name, tags[u].tag_name) => t = u)
    /\ [][\A r \in TagActors, n \in CasedNames :
            (createTag(r, Some(n)) /\ \E t \in DOMAIN tags : SameUpToCase(tags[t].tag_name, n)) => (resp'.status = 400 /\ tags' = tags)]_vars

C25_Witness == resp.op = "createTag" /\ resp.status = 400 /\ Cardinality(DOMAIN tags) = 2

(***************************************************************************)
(* Two signup requests in flight together.                                 *)
(***************************************************************************)
\* signup: the required fields, const existingUser = await User.findOne(...), the 400
signup_findOne(s, user_name, first_name, last_name, email, password) ==
    /\ inflight[s].op = "idle"
    /\ UNCHANGED stores
    /\ IF Falsy(user_name) \/ Falsy(first_name) \/ Falsy(last_name) \/ Falsy(email) \/ Falsy(password)
       THEN Finish(s, AuthResponse("signup", 400, "Please provide all required fields", {}))
       ELSE IF existingUser(Val(user_name), Val(email)) # {}
       THEN Finish(s, AuthResponse("signup", 400, "User with this email or username already exists", {}))
       ELSE Goto(s, [Idle EXCEPT !.op = "signup", !.pc = "save", !.actor = "anonymous", !.name = Val(user_name), !.mail = Val(email), !.text = Val(password)]) /\ UNCHANGED resp

\* signup: new User({...}); await user.save(); res.status(201), or the catch
signup_save(s) ==
    LET q == inflight[s]
        d == newUser(Some(q.name), Some(q.mail), Some(q.text), None)
        id == newUserId(nextId.user)
    IN  /\ q.op = "signup" /\ q.pc = "save"
        /\ UNCHANGED <<notes, notebooks, tags, comments, attachments, groups>>
        /\ IF ~userSchemaValid(d, q.text) \/ ~userIndexFree(d)
           THEN /\ Finish(s, AuthResponse("signup", 500, "Error creating user account", {}))
                /\ UNCHANGED <<users, nextId>>
           ELSE /\ nextId.user <= MaxSignups
                /\ users' = Insert(users, id, d)
                /\ nextId' = [nextId EXCEPT !.user = @ + 1]
                /\ Finish(s, AuthResponse("signup", 201, "User created successfully", {id}))

RaceNames == {Some("amy"), Some("bea")}

RaceEmails == {None, Some("amy@x.io"), Some("Amy@X.io"), Some("bea@x.io")}

NextSignupRace ==
    \/ \E s \in Slots, n \in RaceNames, e \in RaceEmails : signup_findOne(s, n, Some("A"), Some("B"), e, Some("secret"))
    \/ \E s \in Slots : signup_save(s)

SpecSignupRace == Init /\ [][NextSignupRace]_vars

\* the signup request of slot s carries the email or the user_name of a stored User
Taken(s) == \E u \in DOMAIN users : users[u].email = emailSetter(inflight[s].mail) \/ users[u].user_name = trim(inflight[s].name)

\* C26: under every interleaving of two signup requests with the same email or
\* the same user_name, both of which may pass the existence check before either
\* saves, no two stored Users share an email or a user_name, and the request
\* that saves second creates no record and is answered with an error status
C26_SignupRaceOneWinner ==
    /\ [](\A u \in DOMAIN users, v \in DOMAIN users : (users[u].email = users[v].email \/ users[u].user_name = users[v].user_name) => u = v)
    /\ [][\A s \in Slots : (inflight[s].pc = "save" /\ inflight'[s].op = "idle" /\ Taken(s)) => (users' = users /\ resp'.status \in {400, 500})]_vars

C26_Witness == resp.op = "signup" /\ resp.status = 500 /\ "u1" \in DOMAIN users /\ "u2" \notin DOMAIN users

(***************************************************************************)
(* Reading and writing the same note.                                      *)
(***************************************************************************)
EscalateActors == {"alice", "bob", "ed", "root"}

NextEscalate ==
    \/ \E r \in {"alice"} : createNote(r, Some("a"), None, None, None, None, None)
    \/ \E r \in EscalateActors, n \in Issued("note"), v \in ViewTypes : updateNote(r, n, None, None, None, None, None, Some(v))
    \/ \E r \in EscalateActors, n \in Issued("note") : getNoteById(r, n)

SpecEscalate == Init /\ [][NextEscalate]_vars

\* C27: write permission on a Note implies read permission on it: a requester
\* whose getNoteById(N) is answered 403 would have updateNote(N) answered 403
\* too, and no updateNote by a requester who is refused the read of N makes N
\* readable to that requester
C27_WriteImpliesRead ==
    /\ []((resp.op = "getNoteById" /\ resp.status = 403) => ~canEditNote(resp.actor, resp.id))
    /\ [][\A r \in EscalateActors, n \in DOMAIN notes :
            (~canReadNote(r, n) /\ resp'.op = "updateNote" /\ resp'.actor = r /\ resp'.id = n) => ~canReadNote(r, n)']_vars

(***************************************************************************)
(* Refused requests: every handler, with bodies that miss fields, targets  *)
(* that are not stored and requesters that lack the permission.            *)
(***************************************************************************)
FrameActors == {"alice", "bob"}

NextFrame ==
    \/ \E t \in {None, Some("a")} : NoneYet("note") /\ createNote("alice", t, None, None, None, None, None)
    \/ \E r \in FrameActors : getNoteById(r, 1)
    \/ \E r \in FrameActors : updateNote(r, 1, Some("a"), None, None, None, None, None)
    \/ \E r \in FrameActors : deleteNote(r, 1)
    \/ \E t \in {None, Some(1)} : addTagToNote("alice", 1, t)
    \/ \E n \in {None, Some("work")} : NoneYet("tag") /\ createTag("alice", n)
    \/ deleteTag("alice", 1)
    \/ \E n \in {None, Some("nb")} : NoneYet("notebook") /\ createNotebook("alice", n, None)
    \/ getNotebookById("alice", 1)
    \/ \E r \in FrameActors : updateNotebook(r, 1, Some("nb"), None)
    \/ \E r \in FrameActors : deleteNotebook(r, 1)
    \/ \E n \in {None, Some(1)} : addNoteToNotebook("alice", 1, n)
    \/ \E r \in {"alice", "lee"}, n \in {None, Some("g")} : NoneYet("group") /\ createGroup(r, n, None, None)
    \/ \E r \in {"bob", "lee"}, bs \in {None, Some(<<1>>)} : updateGroup(r, 1, Some("g"), None, bs)
    \/ \E r \in {"bob", "lee"} : deleteGroup(r, 1)
    \/ \E r \in {"bob", "lee"}, u \in {None, Some("bob")} : addMemberToGroup(r, 1, u)
    \/ \E n \in {None, Some(1)}, c \in {None, Some("hi")} : NoneYet("comment") /\ createComment("bob", n, c)
    \/ \E r \in FrameActors : deleteComment(r, 1)
    \/ \E pt \in {None, Some("Note")} : NoneYet("attachment") /\ createAttachment("alice", pt, Some(1), Some("f"), Some("image/png"), Some("u"))
    \/ deleteAttachment("alice", 1)
    \/ \E n \in {None, Some("amy"), Some("alice")} : NoneYet("user") /\ signup(n, Some("A"), Some("B"), Some("amy@x.io"), Some("secret"), None)
    \/ \E e \in {None, Some("amy@x.io")} : login(e, Some("secret"))

SpecFrame == Init /\ [][NextFrame]_vars

\* C28: every request that a handler answers with 400, 403 or 404 leaves
\* every collection exactly as it was before the request
C28_RefusalsWriteNothing == [][resp'.status \in {400, 403, 404} => UNCHANGED stores]_vars

C28_Witness == resp.op = "createComment" /\ resp.status = 404 /\ DOMAIN notes = {} /\ nextId.note = 2 /\ DOMAIN groups # {}

(***************************************************************************)
(* The whole service: any request of any of the families above.            *)
(***************************************************************************)
Next == NextTags \/ NextGroups \/ NextGroupAuth \/ NextNotebooks \/ NextCascade \/ NextAttach \/ NextLeak \/ NextRead \/ NextPerm \/ NextWrites \/ NextAdmin \/ NextEditors \/ NextOwners \/ NextAuth \/ NextRefs \/ NextOrder \/ NextTagDelete \/ NextNotebookDelete \/ NextForest \/ NextTagRace \/ NextCommentRace \/ NextShared \/ NextTagNames \/ NextSignupRace \/ NextEscalate \/ NextFrame

Spec == Init /\ [][Next]_vars

====
